---- MODULE Spec2Model ----
(***************************************************************************)
(* A model of the daqingest core: the series registry (series.rs), the     *)
(* channel writer (channelwriter.rs) and the connection set (connset.rs).  *)
(* Each subsystem has its own specification over the shared variables:     *)
(* the variables of the other subsystems stay at their initial value.      *)
(* The write future (ChannelWriteFut) and the forwarding loop of a         *)
(* connection task are modelled in the same way.                           *)
(***************************************************************************)
EXTENDS Integers, Sequences, FiniteSets, TLC

VARIABLES
    \* series registry
    series_by_channel,  \* the catalog table: a set of rows [key, series]
    cat0,               \* the catalog as it was before the first call
    pg_unique,          \* whether the table is unique on the tuple
    gs,                 \* get_series_id calls: caller -> [pc, key, attempt, ret]
    \* channel writer
    cw,                 \* the ChannelWriterAll: [series, shape, scalar_type, ...]
    cw_idx,             \* every ts_msp index row staged so far, in order
    cw_seen,            \* the ts_msp values some write_msg call has fallen into
    cw_ts_prev,         \* ts of the previous write_msg call
    cw_calls,           \* number of write_msg calls made
    cw_last,            \* what the last write_msg call did
    \* write future
    wf,                 \* the ChannelWriteFut the last write_msg call returned
    wf_h,               \* what the polls of it have done so far
    wf_now,             \* the last value Instant::now() returned
    \* connection set
    ca_conn_ress,       \* the address map: addr -> connection id
    lock,               \* holder of the ca_conn_ress mutex (0: free)
    conns,              \* every connection task spawned: id -> record
    ops,                \* the CaConnSet operation each caller is in: caller -> record
    nops,               \* number of calls started
    ret,                \* the operation that returned in the last step, if any
    log,                \* the 'waiting for N connections' logged in the last step, if any
    script,             \* position of the caller that runs create, stop, wait in sequence
    \* forwarding tasks
    fwd,                \* the conn_fut of each connection: id -> record
    conn_item_chan,     \* the items in the bounded conn_item_tx/conn_item_rx channel
    conn_item_closed,   \* whether that channel is closed
    conn_item_got,      \* what the receivers have taken, per connection, in order
    \* writer construction
    made,               \* what the last ChannelWriterAll::new call was given and returned
    \* IOC search
    gw_addrs,           \* ca_search: the resolved search_blacklist, in order
    search_log,         \* the rows inserted into ioc_by_channel_log, in order
    search_pc,          \* ca_search: "loop" while it pulls from the finder, then "done"
    search_n,           \* number of pulls from the finder so far
    search_found,       \* number of results the finder has yielded so far
    \* IOC finder
    fi,                 \* FindIocStream: its queries and the results it holds ready
    \* command queue index
    cq,                 \* CommandQueueSet: the index and what its readers were given
    \* channel states listing
    chst,               \* channel_states: the replies it was given and its answer
    \* sender polling
    spo,                \* SenderPolling with its channel and its callers' items
    \* timestamp split
    tsplit,             \* ts_msp_lsp_gen: the arguments and results of the last calls
    \* token range scan
    tscan               \* list_pkey / list_pulses: the loop over the token ranges

series_vars == <<series_by_channel, cat0, pg_unique, gs>>
writer_vars == <<cw, cw_idx, cw_seen, cw_ts_prev, cw_calls, cw_last>>
future_vars == <<wf, wf_h, wf_now>>
connset_vars == <<ca_conn_ress, lock, conns, ops, nops, ret, log, script>>
forward_vars == <<fwd, conn_item_chan, conn_item_closed, conn_item_got>>
ctor_vars == <<made>>
search_vars == <<gw_addrs, search_log, search_pc, search_n, search_found>>
aux_vars == <<cq, chst, spo, tsplit, tscan>>
more_vars == <<fi, cq, chst, spo, tsplit, tscan>>
old_vars == <<series_by_channel, cat0, pg_unique, gs,
              cw, cw_idx, cw_seen, cw_ts_prev, cw_calls, cw_last,
              wf, wf_h, wf_now,
              ca_conn_ress, lock, conns, ops, nops, ret, log, script,
              fwd, conn_item_chan, conn_item_closed, conn_item_got,
              made>>
vars == <<series_by_channel, cat0, pg_unique, gs,
          cw, cw_idx, cw_seen, cw_ts_prev, cw_calls, cw_last,
          wf, wf_h, wf_now,
          ca_conn_ress, lock, conns, ops, nops, ret, log, script,
          fwd, conn_item_chan, conn_item_closed, conn_item_got,
          made, gw_addrs, search_log, search_pc, search_n, search_found,
          fi, cq, chst, spo, tsplit, tscan>>

None == "None"

(***************************************************************************)
(* Series registry: get_series_id (series.rs).                             *)
(* The 64-bit id is scaled to IdBits bits; the tests of the code against   *)
(* i64::MAX and 0 keep their meaning: the high bit set, or zero.           *)
(***************************************************************************)
IdBits == 3
U64_MAX == 2^IdBits - 1
I64_MAX == 2^(IdBits - 1) - 1

\* (facility, channel, scalar_type, shape_dims) tuples
NumKeys == 2
Keys == 1..NumKeys

\* concurrent callers of get_series_id
NumGsCallers == 2
GsCallers == 1..NumGsCallers

\* for _ in 0..200, scaled: every pass of the loop is alike
MaxAttempts == 4

Row(k, s) == [key |-> k, series |-> s]

\* A select that leaves out the where clause.
SelectAnyTuple(cat, k) == {r.series : r \in cat}

\* select series from series_by_channel where facility, channel, scalar_type,
\* shape_dims match: the ids found, as the code collects them into `all`.
SelectSeries(cat, k) == {r.series : r \in {x \in cat : x.key = k}}

\* The constraints of the table that make `on conflict do nothing` skip a row:
\* the series id is the key of the row, and the table may be unique on the
\* tuple.
PgConflict(cat, row) ==
    \E r \in cat : r.series = row.series \/ (pg_unique /\ r.key = row.key)

\* An insert that adds the row and reports no row.
PgInsertUncounted(cat, row) == [cat |-> cat \cup {row}, n |-> 0]

\* insert ... on conflict do nothing: the new table and the row count.
PgInsert(cat, row) ==
    IF PgConflict(cat, row)
    THEN [cat |-> cat, n |-> 0]
    ELSE [cat |-> cat \cup {row}, n |-> 1]

\* Checks that let every candidate pass.
CandidateAny(series) == TRUE

\* The candidate passes the checks that precede the insert.
CandidateOk(series) == ~(series > I64_MAX) /\ ~(series = 0)

Ret(tag, id) == [tag |-> tag, id |-> id]

\* The catalog before the calls: empty, or with the row of one tuple, or, in a
\* table that is not unique on the tuple, with two rows of one tuple.
GsInit ==
    /\ pg_unique \in BOOLEAN
    /\ \E k \in Keys, s \in 1..I64_MAX, s2 \in 1..I64_MAX :
          series_by_channel \in
              {{}, {Row(k, s)}} \cup (IF pg_unique THEN {} ELSE {{Row(k, s), Row(k, s2)}})
    /\ cat0 = series_by_channel
    /\ gs = [p \in GsCallers |-> [pc |-> "idle", key |-> 0, attempt |-> 0, ret |-> Ret(None, 0)]]

GsIdle ==
    /\ series_by_channel = {}
    /\ cat0 = {}
    /\ pg_unique = TRUE
    /\ gs = [p \in GsCallers |-> [pc |-> "idle", key |-> 0, attempt |-> 0, ret |-> Ret(None, 0)]]

\* The call up to the end of the select: Existing(all[0]) when a row exists,
\* else the caller enters the insert loop.
GsQuery(p, k) ==
    /\ gs[p].pc = "idle"
    /\ LET all == SelectSeries(series_by_channel, k) IN
         IF all = {}
         THEN gs' = [gs EXCEPT ![p] = [pc |-> "loop", key |-> k, attempt |-> 0, ret |-> Ret(None, 0)]]
         ELSE \E s \in all :
                gs' = [gs EXCEPT ![p] = [pc |-> "done", key |-> k, attempt |-> 0, ret |-> Ret("Existing", s)]]
    /\ UNCHANGED <<series_by_channel, cat0, pg_unique, writer_vars, future_vars, connset_vars, forward_vars, ctor_vars, search_vars, more_vars>>

\* One pass of the loop body: a candidate from the hash (any 64-bit value), the
\* checks, the insert, and on a skipped insert the 20 ms sleep.
GsAttempt(p) ==
    /\ gs[p].pc = "loop"
    /\ gs[p].attempt < MaxAttempts
    /\ \E series \in 0..U64_MAX :
         IF ~CandidateOk(series)
         THEN /\ gs' = [gs EXCEPT ![p].attempt = @ + 1]
              /\ UNCHANGED series_by_channel
         ELSE LET res == PgInsert(series_by_channel, Row(gs[p].key, series)) IN
              /\ series_by_channel' = res.cat
              /\ IF res.n = 1
                 THEN gs' = [gs EXCEPT ![p].attempt = @ + 1, ![p].pc = "done",
                                       ![p].ret = Ret("Created", series)]
                 ELSE gs' = [gs EXCEPT ![p].attempt = @ + 1]
    /\ UNCHANGED <<cat0, pg_unique, writer_vars, future_vars, connset_vars, forward_vars, ctor_vars, search_vars, more_vars>>

\* The loop ran out: "can not create and insert series id".
GsGiveUp(p) ==
    /\ gs[p].pc = "loop"
    /\ gs[p].attempt = MaxAttempts
    /\ gs' = [gs EXCEPT ![p].pc = "done", ![p].ret = Ret("Err", 0)]
    /\ UNCHANGED <<series_by_channel, cat0, pg_unique, writer_vars, future_vars, connset_vars, forward_vars, ctor_vars, search_vars, more_vars>>

(***************************************************************************)
(* Channel writer: ChannelWriterAll and the message acceptors              *)
(* (channelwriter.rs).  Time is scaled: u32 has U32Bits bits, enough for   *)
(* the five bits the flush thresholds read, and SEC is a quarter of 2^32   *)
(* (in the program 10^9, a little less), so that u32::MAX < 10 * SEC.      *)
(***************************************************************************)
U32Bits == 6
U32_MAX == 2^U32Bits - 1
\* x as i32 of a u32.
AsI32(x) == IF x >= 2^(U32Bits - 1) THEN x - 2^U32Bits ELSE x
SEC == 2^U32Bits \div 4

ScalarTypes == {"U8", "U16", "U32", "U64", "I8", "I16", "I32", "I64", "F32", "F64", "BOOL", "STRING"}
Shapes == {"Scalar", "Wave", "Image"}
ByteOrders == {"LE", "BE"}

\* scalar_type.index(): the numbering is netpod's; it only has to be injective.
ScalarTypeIndex(st) ==
    CASE st = "U8" -> 0 [] st = "U16" -> 1 [] st = "U32" -> 2 [] st = "U64" -> 3
      [] st = "I8" -> 4 [] st = "I16" -> 5 [] st = "I32" -> 6 [] st = "I64" -> 7
      [] st = "F32" -> 8 [] st = "F64" -> 9 [] st = "BOOL" -> 10 [] st = "STRING" -> 11

DtypeMark(scalar_type, shape) ==
    CASE shape = "Scalar" -> ScalarTypeIndex(scalar_type)
      [] shape = "Wave" -> 1000 + ScalarTypeIndex(scalar_type)
      [] shape = "Image" -> 2000 + ScalarTypeIndex(scalar_type)

\* The element type $st of the acceptor instantiated for a channel type
\* (impl_msg_acceptor_scalar! / impl_msg_acceptor_array!) and its size_of.
AcceptorElem(scalar_type) ==
    CASE scalar_type \in {"U16", "I16"} -> "i16"
      [] scalar_type = "U32" -> "i32"
      [] scalar_type = "F32" -> "f32"
      [] scalar_type = "F64" -> "f64"

SizeOf(elem) ==
    CASE elem = "i16" -> 2 [] elem = "i32" -> 4 [] elem = "f32" -> 4 [] elem = "f64" -> 8

\* A constructor that takes the scalar types in either byte order.
SupportedAnyOrder(scalar_type, shape, byte_order) ==
    \/ shape = "Scalar" /\ scalar_type \in {"U16", "U32", "F32", "F64"}
    \/ shape = "Wave" /\ scalar_type \in {"U16", "I16", "F32", "F64"}

\* The (scalar_type, shape, byte_order) for which `new` builds an acceptor.
Supported(scalar_type, shape, byte_order) ==
    \/ shape = "Scalar" /\ scalar_type \in {"U16", "U32", "F32", "F64"} /\ byte_order = "BE"
    \/ shape = "Wave" /\ scalar_type \in {"U16", "I16", "F32", "F64"}

\* A split on bucket boundaries that are the same for every series.
ts_msp_lsp_aligned(ts, series, fak) ==
    IF ts < U32_MAX THEN <<0, 0>> ELSE <<(ts \div fak) * fak, ts % fak>>

\* A timestamp is a u64 of TsBits bits; u64 arithmetic wraps.
TsBits == 12
TS_MAX == 2^TsBits - 1
WrapU64(x) == x % 2^TsBits

\* A split without the early return for timestamps below u32::MAX.
ts_msp_lsp_unguarded(ts, series, fak) ==
    LET off == series
        ts_a == WrapU64(ts - off)
        ts_b == ts_a \div fak
        ts_lsp == ts_a % fak
        ts_msp == WrapU64(ts_b * fak + off)
    IN <<ts_msp, ts_lsp>>

ts_msp_lsp_gen(ts, series, fak) ==
    IF ts < U32_MAX
    THEN <<0, 0>>
    ELSE LET off == series
             ts_a == WrapU64(ts - off)
             ts_b == ts_a \div fak
             ts_lsp == ts_a % fak
             ts_msp == WrapU64(ts_b * fak + off)
         IN <<ts_msp, ts_lsp>>

ts_msp_lsp_1(ts, series) == ts_msp_lsp_gen(ts, series, 100 * SEC)

ts_msp_lsp_2(ts, series) == ts_msp_lsp_gen(ts, series, 10 * SEC)

\* ChannelWriterAll::new: the writer, or "Err" for an unsupported combination.
ChannelWriterAll_new(series, scalar_type, shape, byte_order, array_truncate) ==
    IF ~Supported(scalar_type, shape, byte_order)
    THEN "Err"
    ELSE [series |-> series,
          shape |-> shape,
          byte_order |-> byte_order,
          elem |-> AcceptorElem(scalar_type),
          array_truncate |-> array_truncate,
          ts_msp_last |-> 0,
          values |-> <<>>,
          dtype_mark |-> DtypeMark(scalar_type, shape),
          alive |-> TRUE]

\* (self.ts_msp_lsp)(ts, self.series): ts_msp_lsp_1 for scalars, _2 for waves.
WriterSplit(w, ts) ==
    IF w.shape = "Scalar" THEN ts_msp_lsp_1(ts, w.series) ELSE ts_msp_lsp_2(ts, w.series)

Reverse(s) == [i \in 1..Len(s) |-> s[Len(s) + 1 - i]]

\* from_be_bytes / from_le_bytes: the bits of the element, most significant
\* byte first.
FromBytes(bytes, byte_order) == IF byte_order = "BE" THEN bytes ELSE Reverse(bytes)

\* A payload byte has ByteBits bits.
ByteBits == 5
ByteRadix == 2 ^ ByteBits

\* The unsigned number whose bits, most significant byte first, are `bits`.
RECURSIVE Unsigned(_)
Unsigned(bits) ==
    IF bits = <<>> THEN 0
    ELSE Unsigned(SubSeq(bits, 1, Len(bits) - 1)) * ByteRadix + bits[Len(bits)]

\* The number that an element of the integer type $st (i16, i32) with these
\* bits is: the two's complement reading.
ElemValue(bits) ==
    LET u == Unsigned(bits)
        m == ByteRadix ^ Len(bits)
    IN IF u >= m \div 2 THEN u - m ELSE u

\* A truncate that keeps every element.
MinKeepsAll(a, b) == a

Min(a, b) == IF a < b THEN a ELSE b

\* fr.data()[0..STL] panics on a payload shorter than the element.
AcceptPanics(w, fr) == w.shape = "Scalar" /\ Len(fr) < SizeOf(w.elem)

\* MsgAcceptor::accept: the row pushed to `values`.
AcceptRow(w, ts_msp, ts_lsp, pulse, fr) ==
    LET STL == SizeOf(w.elem) IN
    IF w.shape = "Scalar"
    THEN [series |-> AsI32(w.series), ts_msp |-> ts_msp, ts_lsp |-> ts_lsp, pulse |-> pulse,
          value |-> FromBytes(SubSeq(fr, 1, STL), w.byte_order)]
    ELSE LET vc == Len(fr) \div STL
             values == [i \in 1..vc |-> FromBytes(SubSeq(fr, (i - 1) * STL + 1, i * STL), w.byte_order)]
         IN [series |-> AsI32(w.series), ts_msp |-> ts_msp, ts_lsp |-> ts_lsp, pulse |-> pulse,
             value |-> SubSeq(values, 1, Min(vc, w.array_truncate))]

\* (self.series as usize) & mask for mask + 1 a power of two: the acceptor
\* holds the series as i32, the cast to usize extends its sign, and the low
\* bits that the mask keeps are the remainder of the two's complement.
LowBits(series, mask) == AsI32(series) % (mask + 1)

\* A should_flush that wants one row more than the threshold.
ShouldFlushLate(w, values) ==
    IF w.shape = "Scalar"
    THEN Len(values) > 140 + LowBits(w.series, 31)
    ELSE Len(values) > 40 + LowBits(w.series, 7)

\* MsgAcceptor::should_flush, on the buffer as it is after accept.
ShouldFlush(w, values) ==
    IF w.shape = "Scalar"
    THEN Len(values) >= 140 + LowBits(w.series, 31)
    ELSE Len(values) >= 40 + LowBits(w.series, 7)

\* The ts_msp index row of the ScyQueryFut staged as fut1:
\* (self.series as i32, ts_msp as i64, self.dtype_mark as i32); dtype_mark and
\* ts_msp are below the sign bit of their target types.
IndexRow(w, ts_msp) ==
    [series |-> AsI32(w.series), ts_msp |-> ts_msp, dtype_mark |-> w.dtype_mark]

\* A flush_batch that appends a statement for all rows but one.
FlushBatchShort(values) ==
    [values |-> <<>>, nstmt |-> Len(values) - 1, rows |-> values]

\* A flush_batch that leaves the last row in the buffer as well.
FlushBatchKeepsLast(values) ==
    [values |-> <<values[Len(values)]>>, nstmt |-> Len(values), rows |-> values]

\* MsgAcceptor::flush_batch: vt = mem::replace(&mut self.values, vec![]), one
\* append_statement for each of the vt.len() rows, ScyBatchFutGen::new(scy,
\* batch, vt): the buffer afterwards, the number of statements of the batch
\* and the rows bound to it.
FlushBatch(values) ==
    [values |-> <<>>, nstmt |-> Len(values), rows |-> values]

\* A write_msg_impl that stages the index row on every call.
TsMspChangedAlways(w, ts_msp) == TRUE

\* Whether write_msg_impl stages the index row: the bucket differs from the last.
TsMspChanged(w, ts_msp) == ts_msp # w.ts_msp_last

\* write_msg_impl: the writer afterwards and the ChannelWriteFut it returns
\* (fut1, fut2: an Option as a sequence of none or one element; fut1 holds the
\* index row, fut2 the rows of the flushed batch), or a panic out of accept,
\* which leaves no future.
WriteMsgImpl(w, ts, pulse, fr) ==
    LET sp == WriterSplit(w, ts)
        ts_msp == sp[1]
        ts_lsp == sp[2]
        changed == TsMspChanged(w, ts_msp)
        fut1 == IF changed THEN <<IndexRow(w, ts_msp)>> ELSE <<>>
        w1 == IF changed THEN [w EXCEPT !.ts_msp_last = ts_msp] ELSE w
    IN
    IF AcceptPanics(w, fr)
    THEN [w |-> [w1 EXCEPT !.alive = FALSE], ts_msp |-> ts_msp, panic |-> TRUE,
          fut1 |-> <<>>, fut2 |-> <<>>, nn |-> 0, nstmt |-> 0]
    ELSE LET values == Append(w1.values, AcceptRow(w1, ts_msp, ts_lsp, pulse, fr)) IN
         IF ShouldFlush(w1, values)
         THEN LET fb == FlushBatch(values) IN
              [w |-> [w1 EXCEPT !.values = fb.values], ts_msp |-> ts_msp, panic |-> FALSE,
               fut1 |-> fut1, fut2 |-> <<fb.rows>>, nn |-> Len(values), nstmt |-> fb.nstmt]
         ELSE [w |-> [w1 EXCEPT !.values = values], ts_msp |-> ts_msp, panic |-> FALSE,
               fut1 |-> fut1, fut2 |-> <<>>, nn |-> 0, nstmt |-> 0]

\* One write_msg call on the writer and its history: st is the record of the
\* writer variables; nth counts the calls since the construction, batches the
\* batches flushed since.
WriterCall(st, ts, pulse, fr) ==
    LET r == WriteMsgImpl(st.cw, ts, pulse, fr) IN
    [cw |-> r.w,
     idx |-> st.idx \o r.fut1,
     seen |-> IF r.ts_msp \in st.seen THEN st.seen ELSE st.seen \cup {r.ts_msp},
     ts_prev |-> ts,
     last |-> [ts |-> ts, ts_msp |-> r.ts_msp, first |-> r.ts_msp \notin st.seen,
               panic |-> r.panic, fut1 |-> r.fut1, fut2 |-> r.fut2, nn |-> r.nn,
               nstmt |-> r.nstmt, fr |-> fr,
               nth |-> st.last.nth + 1,
               batches |-> st.last.batches + Len(r.fut2)]]

NoCall == [ts |-> 0, ts_msp |-> 0, first |-> FALSE, panic |-> FALSE,
           fut1 |-> <<>>, fut2 |-> <<>>, nn |-> 0, nstmt |-> 0, fr |-> <<>>, nth |-> 0,
           batches |-> 0]

FreshWriter(w) == [cw |-> w, idx |-> <<>>, seen |-> {}, ts_prev |-> 0, last |-> NoCall]

RECURSIVE WriterCalls(_, _, _, _, _)
\* n calls write_msg(ts, pulse, fr) in a row: the first half of the calls,
\* then the rest (the test on the first half's result only makes TLC
\* evaluate it before it goes on).
WriterCalls(st, n, ts, pulse, fr) ==
    IF n = 0 THEN st
    ELSE IF n = 1 THEN WriterCall(st, ts, pulse, fr)
    ELSE LET half == WriterCalls(st, n \div 2, ts, pulse, fr) IN
         IF half.ts_prev = ts
         THEN WriterCalls(half, n - (n \div 2), ts, pulse, fr)
         ELSE half

----------------------------------------------------------------------------
\* ChannelWriteFut and its poll.  A child future (ScyQueryFut, ScyBatchFutGen)
\* answers a poll with Pending, Ready(Ok) or Ready(Err): the database's choice.
MaxPolls == 3
MaxClock == 1
ChildAnswers == {"Pending", "Ok", "Err"}

\* No future: the write_msg call panicked, or none was made.
NoFut == [live |-> FALSE, nn |-> 0, fut1 |-> <<>>, fut2 |-> <<>>, ts1 |-> <<>>, mask |-> 0]

\* The ChannelWriteFut write_msg_impl builds from what it staged.
ChannelWriteFut(last) ==
    IF last.panic
    THEN NoFut
    ELSE [live |-> TRUE, nn |-> last.nn, fut1 |-> last.fut1, fut2 |-> last.fut2,
          ts1 |-> <<>>, mask |-> 0]

\* What one poll did: the answer of each child it polled and what it returned.
NoEv ==
    [child |-> <<None, None>>, out |-> [tag |-> None, nrows |-> 0, dt |-> 0], again |-> FALSE]

\* The polls of a future so far: whether each child was ever polled, how it
\* completed, how often it completed, how often the future returned Ready.
NoPolls ==
    [npolls |-> 0, polled |-> <<FALSE, FALSE>>, done |-> <<None, None>>, comp |-> <<0, 0>>,
     nready |-> 0, ev |-> NoEv]

\* mask |= bit
BitOr(mask, bit) == IF (mask \div bit) % 2 = 1 THEN mask ELSE mask + bit

\* A poll that drives the row batch before the index insert.
NextChildBatchFirst(f) == IF f.fut2 # <<>> THEN 2 ELSE IF f.fut1 # <<>> THEN 1 ELSE 0

\* The child the if / else-if chain of poll drives: fut1 while it is Some,
\* then fut2 while it is Some, else none (0).
NextChild(f) == IF f.fut1 # <<>> THEN 1 ELSE IF f.fut2 # <<>> THEN 2 ELSE 0

\* Ready(k) of child c: self.futc = None; self.mask |= c.
ChildTaken(f, c) ==
    IF c = 1
    THEN [f EXCEPT !.fut1 = <<>>, !.mask = BitOr(@, 1)]
    ELSE [f EXCEPT !.fut2 = <<>>, !.mask = BitOr(@, 2)]

\* A poll that goes on after the error of a child.
SurfacesNever(k) == FALSE

\* match k { Ok(_) => continue, Err(e) => Ready(Err(e)) }
Surfaces(k) == k = "Err"

\* A final arm that reports the number of batches.
PollDoneBatches(f, ts2) ==
    IF f.mask # 0
    THEN [tag |-> "Ok", nrows |-> IF f.mask >= 2 THEN 1 ELSE 0, dt |-> ts2 - f.ts1[1]]
    ELSE [tag |-> "Ok", nrows |-> 0, dt |-> 0]

\* The final arm: no child is left.  nn stays far below 2^32, the cast to u32
\* keeps it.
PollDone(f, ts2) ==
    IF f.mask # 0
    THEN [tag |-> "Ok", nrows |-> f.nn, dt |-> ts2 - f.ts1[1]]
    ELSE [tag |-> "Ok", nrows |-> 0, dt |-> 0]

RECURSIVE PollLoop(_, _, _, _, _)
\* The loop of poll: f is the future, h the record of its polls, now and ts2
\* what Instant::now() returns at ts1 and at ts2, r the answers of the
\* children should they be polled.
PollLoop(f, h, now, ts2, r) ==
    IF f.ts1 = <<>>
    THEN PollLoop([f EXCEPT !.ts1 = <<now>>], h, now, ts2, r)
    ELSE LET c == NextChild(f) IN
         IF c = 0
         THEN [f |-> f, h |-> h, out |-> PollDone(f, ts2)]
         ELSE LET k == r[c]
                  h1 == [h EXCEPT !.polled[c] = TRUE, !.ev.child[c] = k]
              IN IF k = "Pending"
                 THEN [f |-> f, h |-> h1, out |-> [tag |-> "Pending", nrows |-> 0, dt |-> 0]]
                 ELSE LET f1 == ChildTaken(f, c)
                          h2 == [h1 EXCEPT !.done[c] = k, !.comp[c] = @ + 1]
                      IN IF Surfaces(k)
                         THEN [f |-> f1, h |-> h2, out |-> [tag |-> "Err", nrows |-> 0, dt |-> 0]]
                         ELSE PollLoop(f1, h2, now, ts2, r)

\* One poll of the future.  An answer or a clock value that the poll does not
\* ask for is no input of it: it is held at Pending, at the last clock value.
PollStep(now, ts2, r1, r2) ==
    /\ wf.live
    /\ wf_h.npolls < MaxPolls
    /\ wf_now <= now
    /\ now <= ts2
    /\ LET res == PollLoop(wf, [wf_h EXCEPT !.ev = NoEv], now, ts2, <<r1, r2>>) IN
          /\ res.h.ev.child[1] = None => r1 = "Pending"
          /\ res.h.ev.child[2] = None => r2 = "Pending"
          /\ wf.ts1 # <<>> => now = wf_now
          /\ ~(res.out.tag = "Ok" /\ res.f.mask # 0) => ts2 = now
          /\ wf' = res.f
          /\ wf_h' = [res.h EXCEPT !.npolls = @ + 1,
                                   !.nready = IF res.out.tag = "Pending" THEN @ ELSE @ + 1,
                                   !.ev.out = res.out,
                                   !.ev.again = wf_h.nready > 0]
          /\ wf_now' = IF res.out.tag = "Ok" /\ res.f.mask # 0 THEN ts2
                       ELSE IF wf.ts1 = <<>> THEN now
                       ELSE wf_now
    /\ UNCHANGED <<series_vars, writer_vars, connset_vars, forward_vars, ctor_vars, search_vars, more_vars>>

\* The owner polls the future until it is Ready,
Poll(now, ts2, r1, r2) == wf_h.nready = 0 /\ PollStep(now, ts2, r1, r2)

\* or polls it once more after that.
PollAgain(now, ts2, r1, r2) == wf_h.nready > 0 /\ PollStep(now, ts2, r1, r2)

\* Inputs of the writer specification.
MaxCalls == 3
ArrayTruncate == 2
PrefillGap == 2
WriterKinds == {<<"F32", "Scalar", "BE">>, <<"F64", "Wave", "LE">>}
SeriesVals == {0, 7, U32_MAX}
\* a run of samples at one timestamp inside the first 2^32 ns: 2 * 10^9 of
\* 2^32 is about 7/15
RunLen == 140
Ts2e9 == (7 * 2^U32Bits) \div 15
Pulses == {1}
Frame(n) == [i \in 1..n |-> i]
Frames == {Frame(0), Frame(8), Frame(28)}
Fak(w) == IF w.shape = "Scalar" THEN 100 * SEC ELSE 10 * SEC
TsVals(w) ==
    {0, Ts2e9, U32_MAX - 1, U32_MAX, U32_MAX + 1,
     Fak(w) + w.series - 1, Fak(w) + w.series, 2 * Fak(w) + w.series}
\* The timestamps of the calls whose futures are followed: in the first
\* bucket, or in one of two later ones.
FutTsVals(w) == {0, U32_MAX + 1, 2 * Fak(w) + w.series}
FlushLen(w) == IF w.shape = "Scalar" THEN 140 + (w.series % 32) ELSE 40 + (w.series % 8)

SetWriter(st) ==
    /\ cw = st.cw
    /\ cw_idx = st.idx
    /\ cw_seen = st.seen
    /\ cw_ts_prev = st.ts_prev
    /\ cw_last = st.last
    /\ cw_calls = 0
    /\ wf = NoFut
    /\ wf_h = NoPolls
    /\ wf_now = 0

\* The runs <<n, ts>> of n samples at the timestamp ts that a writer has taken
\* since its construction: none, or PrefillGap samples short of its flush,
\* or PrefillGap samples short of RunLen.
Prefills(w) ==
    {<<0, 0>>, <<FlushLen(w) - PrefillGap, 0>>, <<FlushLen(w) - PrefillGap, U32_MAX + 1>>,
     <<RunLen - PrefillGap, Ts2e9>>}

\* A writer as constructed, or one that has taken such a run.
CwInit ==
    \E k \in WriterKinds, series \in SeriesVals :
        LET w == ChannelWriterAll_new(series, k[1], k[2], k[3], ArrayTruncate) IN
        \E pre \in Prefills(w) :
            SetWriter(WriterCalls(FreshWriter(w), pre[1], pre[2], 1, Frame(8)))

\* The writers whose futures are followed: of series 7, as constructed or
\* short of the flush.
CwInitFut ==
    \E k \in WriterKinds :
        LET w == ChannelWriterAll_new(7, k[1], k[2], k[3], ArrayTruncate) IN
        \E pre \in {<<0, 0>>, <<FlushLen(w) - PrefillGap, 0>>} :
            SetWriter(WriterCalls(FreshWriter(w), pre[1], pre[2], 1, Frame(8)))

CwIdle ==
    SetWriter(FreshWriter(ChannelWriterAll_new(0, "F32", "Scalar", "BE", ArrayTruncate)))

\* write_msg(ts, pulse, fr), called in non-decreasing ts order by the owner.
WriteMsg(ts, pulse, fr) ==
    /\ cw.alive
    /\ cw_calls < MaxCalls
    /\ ts >= cw_ts_prev
    /\ LET st == WriterCall([cw |-> cw, idx |-> cw_idx, seen |-> cw_seen,
                             ts_prev |-> cw_ts_prev, last |-> cw_last], ts, pulse, fr)
       IN /\ cw' = st.cw
          /\ cw_idx' = st.idx
          /\ cw_seen' = st.seen
          /\ cw_ts_prev' = st.ts_prev
          /\ cw_last' = st.last
    /\ cw_calls' = cw_calls + 1
    /\ wf' = ChannelWriteFut(cw_last')
    /\ wf_h' = NoPolls
    /\ UNCHANGED <<wf_now, series_vars, connset_vars, forward_vars, ctor_vars, search_vars, more_vars>>

(***************************************************************************)
(* Connection set: CaConnSet (connset.rs).  A connection is the task       *)
(* spawned by create_ca_conn together with its CaConn; the CaConn itself   *)
(* is modelled by its command contract: it takes a command from its queue  *)
(* and answers it, and after a shutdown command its stream ends.           *)
(***************************************************************************)
NumV4 == 2
V4Addrs == 1..NumV4
\* One IPv6 address; SocketAddr orders every V4 address before it.
V6Addr == NumV4 + 1
Addrs == V4Addrs \cup {V6Addr}
IsV4(addr) == addr \in V4Addrs

NumChans == 1
ChanNames == 1..NumChans

NumCallers == 2
Callers == 1..NumCallers

MaxConns == 2
\* calls made by callers that call anything
MaxOps == 3
\* capacity of a connection's command channel
CmdCap == 1

\* the ids of the connection tasks, in spawn order
ConnIds == 1..MaxConns

QueryKinds == {"channel_states_all"}

EmptyMap == [a \in {} |-> 0]

\* An insert that keeps the entry an address already has.
MapInsertKeeps(m, addr, c) ==
    [a \in (DOMAIN m) \cup {addr} |-> IF a \in DOMAIN m THEN m[a] ELSE c]

MapInsert(m, addr, c) == [a \in (DOMAIN m) \cup {addr} |-> IF a = addr THEN c ELSE m[a]]

\* The keys of a BTreeMap in iteration order.
SortedKeys(S) ==
    CHOOSE s \in [1..Cardinality(S) -> S] : \A i, j \in 1..Cardinality(S) : i < j => s[i] < s[j]

\* The values of the map in key order.
MapValues(m) == LET ks == SortedKeys(DOMAIN m) IN [i \in 1..Len(ks) |-> m[ks[i]]]

Finished(c) == conns[c].state \in {"ok", "err"}

\* The command channel is closed once the task has ended and dropped the
\* CaConn with the receiver.
Closed(c) == Finished(c)

IdleOp ==
    [op |-> "none", pc |-> "idle", addr |-> 0, kind |-> "none", ch |-> 0,
     map0 |-> EmptyMap, todo |-> <<>>, replies |-> <<>>, rxs |-> <<>>, res |-> <<>>,
     taken |-> <<>>, jhs |-> <<>>, njoined |-> 0, created |-> <<>>, result |-> None,
     n |-> 0]

NoRet == [by |-> 0, o |-> IdleOp]

\* The caller that runs create_ca_conn, send_stop, wait_stopped in sequence is
\* caller 1 when script is not "free"; with "free" every caller calls anything.
ScriptAllows(p, op) ==
    \/ script = "free" /\ nops < MaxOps
    \/ p = 1 /\ script = "create" /\ op = "create_ca_conn"
    \/ p = 1 /\ script = "create" /\ op = "send_stop" /\ conns # <<>>
    \/ p = 1 /\ script = "stop" /\ op = "wait_stopped"

ScriptAfter(op) ==
    IF script = "free" THEN "free"
    ELSE IF op = "create_ca_conn" THEN "create"
    ELSE IF op = "send_stop" THEN "stop"
    ELSE "end"

CanStart(p, op) == ops[p].pc = "idle" /\ ScriptAllows(p, op)

\* The operation of caller p goes on as o; os is ops after the step's other effects.
Goes(os, p, o) ==
    /\ ops' = [os EXCEPT ![p] = o]
    /\ nops' = IF ops[p].pc = "idle" THEN nops + 1 ELSE nops
    /\ ret' = NoRet
    /\ UNCHANGED script

\* The operation of caller p returns; o is its record at the return.
Returns(os, p, o) ==
    /\ ops' = [os EXCEPT ![p] = IdleOp]
    /\ nops' = IF ops[p].pc = "idle" THEN nops + 1 ELSE nops
    /\ ret' = [by |-> p, o |-> [o EXCEPT !.pc = "done"]]
    /\ script' = ScriptAfter(o.op)

\* CaConn::new, conn.channel_add for each of with_channels, tokio::spawn.
NewConn(addr, with_channels) ==
    [addr |-> addr, channels0 |-> with_channels, channels |-> with_channels,
     state |-> "running", queue |-> <<>>]

\* The receiver end of a command as cmdgen() or ConnCommand::channel_add makes
\* it, with the connection the command goes to; `sent` tells whether the send
\* succeeded.
NewReply(kind, ch, c, sent) ==
    [kind |-> kind, ch |-> ch, to |-> c, sent |-> sent,
     st |-> IF sent THEN "pending" ELSE "dropped", from |-> 0, val |-> FALSE]

\* The command as it sits in the queue: its reply sender leads to the slot of
\* the caller's receiver.
NewCmd(p, slot, kind, ch) == [by |-> p, slot |-> slot, kind |-> kind, ch |-> ch]

\* ress.sender.send(cmd).await on connection c: blocks while the queue is
\* full, fails when the channel is closed.
CanSend(c) == Closed(c) \/ Len(conns[c].queue) < CmdCap

\* conns after the send of a command to connection c.
SendCmd(cmd, c) ==
    IF Closed(c) THEN conns ELSE [conns EXCEPT ![c].queue = Append(@, cmd)]

\* The sender of connection c is alive while its CaConnRess is in the map m.
Referenced(m, c) == \E a \in DOMAIN m : m[a] = c

\* The connections whose command channel is freed with commands still queued:
\* the task has ended and the CaConnRess has been dropped.
Freed(cs, m) ==
    {c \in 1..Len(cs) : cs[c].state \in {"ok", "err"} /\ ~Referenced(m, c) /\ cs[c].queue # <<>>}

\* Freeing a channel drops its queued commands
DropQueues(cs, m) ==
    [c \in 1..Len(cs) |-> IF c \in Freed(cs, m) THEN [cs[c] EXCEPT !.queue = <<>>] ELSE cs[c]]

\* and with them their reply senders: the receivers see the channel closed.
DropReplies(os, cs, m) ==
    [p \in Callers |->
        [os[p] EXCEPT !.replies =
            [i \in 1..Len(os[p].replies) |->
                IF os[p].replies[i].st = "pending" /\ os[p].replies[i].to \in Freed(cs, m)
                THEN [os[p].replies[i] EXCEPT !.st = "dropped"]
                ELSE os[p].replies[i]]]]

\* The receivers of caller p are dropped when its call returns: the commands
\* still queued answer to nobody.
Orphan(cs, p) ==
    [c \in 1..Len(cs) |->
        [cs[c] EXCEPT !.queue = [i \in 1..Len(cs[c].queue) |->
                                    IF cs[c].queue[i].by = p
                                    THEN [cs[c].queue[i] EXCEPT !.by = 0, !.slot = 0]
                                    ELSE cs[c].queue[i]]]]

\* What every step but the sleep branch of wait_stopped leaves of the log and
\* of the other components.
Quiet == log' = <<>> /\ UNCHANGED <<series_vars, writer_vars, future_vars, forward_vars, ctor_vars, search_vars, more_vars>>

----------------------------------------------------------------------------
\* create_ca_conn up to the spawn; the insert follows once the lock is free.
CreateCaConn(p, addr, with_channels) ==
    /\ CanStart(p, "create_ca_conn")
    /\ Len(conns) < MaxConns
    /\ conns' = Append(conns, NewConn(addr, with_channels))
    /\ Goes(ops, p, [IdleOp EXCEPT !.op = "create_ca_conn", !.pc = "cc_insert",
                                   !.addr = addr, !.map0 = ca_conn_ress,
                                   !.created = <<Len(conns) + 1>>])
    /\ UNCHANGED <<ca_conn_ress, lock>>
    /\ Quiet

\* self.ca_conn_ress.lock().await.insert(addr2, ca_conn_ress); Ok(()).  The
\* entry the insert replaces is dropped.
InsertRess(p) ==
    /\ ops[p].pc = "cc_insert"
    /\ lock = 0
    /\ LET m == MapInsert(ca_conn_ress, ops[p].addr, ops[p].created[1]) IN
          /\ ca_conn_ress' = m
          /\ conns' = DropQueues(conns, m)
          /\ Returns(DropReplies(ops, conns, m), p, [ops[p] EXCEPT !.result = "Ok"])
    /\ UNCHANGED lock
    /\ Quiet

----------------------------------------------------------------------------
\* send_command_to_all (and send_stop, which calls it with shutdown): the lock
\* is taken for the whole for loop over the map.
SendAllLock(p, op, kind) ==
    /\ CanStart(p, op)
    /\ lock = 0
    /\ lock' = p
    /\ Goes(ops, p, [IdleOp EXCEPT !.op = op, !.pc = "sa_send", !.kind = kind,
                                   !.map0 = ca_conn_ress,
                                   !.todo = SortedKeys(DOMAIN ca_conn_ress)])
    /\ UNCHANGED <<ca_conn_ress, conns>>
    /\ Quiet

\* A loop body that puts the new receiver in front of the others.
SendAllRxsFront(rxs, slot, ok) == IF ok THEN <<slot>> \o rxs ELSE rxs

\* A loop body that keeps the receiver of a command it could not send.
SendAllRxsAlways(rxs, slot, ok) == Append(rxs, slot)

\* The receivers pushed to rxs by one pass of the loop body.
SendAllRxs(rxs, slot, ok) == IF ok THEN Append(rxs, slot) ELSE rxs

\* One pass of the loop body: cmdgen(), the send, rxs.push(rx) on Ok.
SendAllSend(p) ==
    /\ ops[p].pc = "sa_send"
    /\ ops[p].todo # <<>>
    /\ LET c == ca_conn_ress[Head(ops[p].todo)]
           slot == Len(ops[p].replies) + 1
       IN /\ CanSend(c)
          /\ conns' = SendCmd(NewCmd(p, slot, ops[p].kind, 0), c)
          /\ Goes(ops, p, [ops[p] EXCEPT !.todo = Tail(@),
                                         !.replies = Append(@, NewReply(ops[p].kind, 0, c, ~Closed(c))),
                                         !.rxs = SendAllRxs(@, slot, ~Closed(c))])
    /\ UNCHANGED <<ca_conn_ress, lock>>
    /\ Quiet

\* The loop over the map is done: the guard is dropped; with no receiver to
\* wait for the call returns Ok(res).
SendAllUnlock(p) ==
    /\ ops[p].pc = "sa_send"
    /\ ops[p].todo = <<>>
    /\ lock' = 0
    /\ IF ops[p].rxs = <<>>
       THEN Returns(ops, p, [ops[p] EXCEPT !.result = "Ok"])
       ELSE Goes(ops, p, [ops[p] EXCEPT !.pc = "sa_recv"])
    /\ UNCHANGED <<ca_conn_ress, conns>>
    /\ Quiet

\* What a failed receive makes of the call: the ? returns the error, res is
\* dropped.
SendAllFail(o) == [o EXCEPT !.pc = "done", !.result = "Err", !.res = <<>>, !.rxs = <<>>]

\* The operation after rx.recv().await? on the reply r of the first receiver.
SendAllRecvStep(o, r) ==
    IF r.st = "dropped"
    THEN SendAllFail(o)
    ELSE LET o1 == [o EXCEPT !.rxs = Tail(@), !.res = Append(@, [from |-> r.from, val |-> r.val])]
         IN IF o1.rxs = <<>> THEN [o1 EXCEPT !.pc = "done", !.result = "Ok"] ELSE o1

SendAllRecv(p) ==
    /\ ops[p].pc = "sa_recv"
    /\ LET r == ops[p].replies[Head(ops[p].rxs)]
           o1 == SendAllRecvStep(ops[p], r)
       IN /\ r.st # "pending"
          /\ IF o1.pc = "done"
             THEN Returns(ops, p, o1) /\ conns' = Orphan(conns, p)
             ELSE Goes(ops, p, o1) /\ UNCHANGED conns
    /\ UNCHANGED <<ca_conn_ress, lock>>
    /\ Quiet

----------------------------------------------------------------------------
\* A lookup that takes the first connection of the map.
TargetFirst(m, addr) == m[SortedKeys(DOMAIN m)[1]]

\* The connection a targeted command goes to.
Target(m, addr) == m[addr]

\* send_command_to_addr: the guard taken in the `if let` lives to the end of
\* the statement.
SendAddrLock(p, addr, kind) ==
    /\ CanStart(p, "send_command_to_addr")
    /\ lock = 0
    /\ LET o == [IdleOp EXCEPT !.op = "send_command_to_addr", !.addr = addr, !.kind = kind,
                               !.map0 = ca_conn_ress]
       IN IF addr \in DOMAIN ca_conn_ress
          THEN lock' = p /\ Goes(ops, p, [o EXCEPT !.pc = "st_send"])
          ELSE lock' = 0 /\ Returns(ops, p, [o EXCEPT !.result = "Err"])
    /\ UNCHANGED <<ca_conn_ress, conns>>
    /\ Quiet

\* cmdgen() and ress.sender.send(cmd).await.err_conv()?
SendAddrSend(p) ==
    /\ ops[p].pc = "st_send"
    /\ LET c == Target(ca_conn_ress, ops[p].addr)
           o == [ops[p] EXCEPT !.replies = <<NewReply(ops[p].kind, 0, c, ~Closed(c))>>]
       IN /\ CanSend(c)
          /\ conns' = SendCmd(NewCmd(p, 1, ops[p].kind, 0), c)
          /\ IF Closed(c)
             THEN lock' = 0 /\ Returns(ops, p, [o EXCEPT !.result = "Err"])
             ELSE UNCHANGED lock /\ Goes(ops, p, [o EXCEPT !.pc = "st_recv"])
    /\ UNCHANGED ca_conn_ress
    /\ Quiet

\* rx.recv().await.err_conv()?; Ok(ret)
SendAddrRecv(p) ==
    /\ ops[p].pc = "st_recv"
    /\ LET r == ops[p].replies[1] IN
          /\ r.st # "pending"
          /\ Returns(ops, p, IF r.st = "dropped"
                             THEN [ops[p] EXCEPT !.result = "Err"]
                             ELSE [ops[p] EXCEPT !.result = "Ok",
                                                 !.res = <<[from |-> r.from, val |-> r.val]>>])
    /\ lock' = 0
    /\ UNCHANGED <<ca_conn_ress, conns>>
    /\ Quiet

----------------------------------------------------------------------------
\* A wait_stopped that leaves the entries in the map.
WaitStoppedKeeps(m) == m

\* What wait_stopped leaves in the map when it takes the entries
\* (std::mem::replace(&mut *g, BTreeMap::new())).
WaitStoppedLeft(m) == EmptyMap

\* wait_stopped: the guard g lives until the function returns.  The entries
\* are consumed: the join handles go to jhs, the senders are dropped.
WaitStoppedLock(p) ==
    /\ CanStart(p, "wait_stopped")
    /\ lock = 0
    /\ lock' = p
    /\ LET m == WaitStoppedLeft(ca_conn_ress) IN
          /\ ca_conn_ress' = m
          /\ conns' = DropQueues(conns, m)
          /\ Goes(DropReplies(ops, conns, m), p,
                  [IdleOp EXCEPT !.op = "wait_stopped", !.pc = "ws_loop",
                                 !.map0 = ca_conn_ress,
                                 !.taken = MapValues(ca_conn_ress),
                                 !.jhs = MapValues(ca_conn_ress)])
    /\ Quiet

\* select!: the join handle at the front of the queue completes.
WaitStoppedJoin(p) ==
    /\ ops[p].pc = "ws_loop"
    /\ ops[p].jhs # <<>>
    /\ Finished(Head(ops[p].jhs))
    /\ Goes(ops, p, [ops[p] EXCEPT !.jhs = Tail(@), !.njoined = @ + 1])
    /\ UNCHANGED <<ca_conn_ress, lock, conns>>
    /\ Quiet

\* A sleep branch that drops the join handle it popped.
RequeueDrops(jhs) == Tail(jhs)

\* The queue after the sleep branch: jhs.push_back(jh).
Requeue(jhs) == Append(Tail(jhs), Head(jhs))

\* The N of info!("waiting for {} connections", jhs.len()).
WaitingFor(jhs) == Len(Requeue(jhs))

\* select!: the one second sleep completes first.
WaitStoppedTimeout(p) ==
    /\ ops[p].pc = "ws_loop"
    /\ ops[p].jhs # <<>>
    /\ Goes(ops, p, [ops[p] EXCEPT !.jhs = Requeue(@)])
    /\ log' = <<[by |-> p, n |-> WaitingFor(ops[p].jhs)]>>
    /\ UNCHANGED <<ca_conn_ress, lock, conns, series_vars, writer_vars, future_vars, forward_vars, ctor_vars, search_vars, more_vars>>

\* The queue is empty: break, Ok(()).
WaitStoppedReturn(p) ==
    /\ ops[p].pc = "ws_loop"
    /\ ops[p].jhs = <<>>
    /\ lock' = 0
    /\ Returns(ops, p, [ops[p] EXCEPT !.result = "Ok"])
    /\ UNCHANGED <<ca_conn_ress, conns>>
    /\ Quiet

----------------------------------------------------------------------------
\* A create arm that registers no channel.
SeedNone(ch) == {}

\* The channels the connection created by add_channel_to_addr starts with.
SeedChannels(ch) == {ch}

\* add_channel_to_addr: the lookup under the lock.  With an entry the guard g
\* stays alive through the Some arm; without one it is dropped at once, and a
\* non-IPv4 address returns "only ipv4 supported for IOC".
AddChannelLock(p, addr, ch) ==
    /\ CanStart(p, "add_channel_to_addr")
    /\ lock = 0
    /\ LET o == [IdleOp EXCEPT !.op = "add_channel_to_addr", !.addr = addr, !.ch = ch,
                               !.kind = "channel_add", !.map0 = ca_conn_ress]
       IN IF addr \in DOMAIN ca_conn_ress
          THEN lock' = p /\ Goes(ops, p, [o EXCEPT !.pc = "ac_send"])
          ELSE /\ lock' = 0
               /\ IF IsV4(addr)
                  THEN Goes(ops, p, [o EXCEPT !.pc = "ac_create"])
                  ELSE Returns(ops, p, [o EXCEPT !.result = "Err"])
    /\ UNCHANGED <<ca_conn_ress, conns>>
    /\ Quiet

\* ConnCommand::channel_add(channel_name) and the send.
AddChannelSend(p) ==
    /\ ops[p].pc = "ac_send"
    /\ LET c == Target(ca_conn_ress, ops[p].addr)
           o == [ops[p] EXCEPT !.replies = <<NewReply("channel_add", ops[p].ch, c, ~Closed(c))>>]
       IN /\ CanSend(c)
          /\ conns' = SendCmd(NewCmd(p, 1, "channel_add", ops[p].ch), c)
          /\ IF Closed(c)
             THEN lock' = 0 /\ Returns(ops, p, [o EXCEPT !.result = "Err"])
             ELSE UNCHANGED lock /\ Goes(ops, p, [o EXCEPT !.pc = "ac_recv"])
    /\ UNCHANGED ca_conn_ress
    /\ Quiet

\* let a = rx.recv().await.err_conv()?; Ok(()) if a, else "channel add failed".
AddChannelRecv(p) ==
    /\ ops[p].pc = "ac_recv"
    /\ LET r == ops[p].replies[1] IN
          /\ r.st # "pending"
          /\ Returns(ops, p, IF r.st = "dropped" \/ ~r.val
                             THEN [ops[p] EXCEPT !.result = "Err"]
                             ELSE [ops[p] EXCEPT !.result = "Ok",
                                                 !.res = <<[from |-> r.from, val |-> r.val]>>])
    /\ lock' = 0
    /\ UNCHANGED <<ca_conn_ress, conns>>
    /\ Quiet

\* The None arm after drop(g): create_ca_conn(.., vec![channel_name]) up to the
\* spawn; InsertRess completes it.
AddChannelCreate(p) ==
    /\ ops[p].pc = "ac_create"
    /\ Len(conns) < MaxConns
    /\ conns' = Append(conns, NewConn(ops[p].addr, SeedChannels(ops[p].ch)))
    /\ Goes(ops, p, [ops[p] EXCEPT !.pc = "cc_insert", !.created = <<Len(conns) + 1>>])
    /\ UNCHANGED <<ca_conn_ress, lock>>
    /\ Quiet

----------------------------------------------------------------------------
\* addr_nth_mod(n): None on an empty map, else with n reduced modulo the
\* number of keys, g.keys().take(n).last(): the last of the first n keys, an
\* Option as a sequence of none or one element.
addr_nth_mod(m, n) ==
    LET len == Cardinality(DOMAIN m) IN
    IF len < 1
    THEN <<>>
    ELSE LET n1 == n % len
             taken == SubSeq(SortedKeys(DOMAIN m), 1, n1)
         IN IF taken = <<>> THEN <<>> ELSE <<taken[Len(taken)]>>

\* The call takes the lock, computes and returns without another await.
AddrNthMod(p, n) ==
    /\ CanStart(p, "addr_nth_mod")
    /\ lock = 0
    /\ Returns(ops, p, [IdleOp EXCEPT !.op = "addr_nth_mod", !.n = n, !.map0 = ca_conn_ress,
                                      !.res = addr_nth_mod(ca_conn_ress, n)])
    /\ UNCHANGED <<ca_conn_ress, lock, conns>>
    /\ Quiet


----------------------------------------------------------------------------
\* A step of a connection task leaves the callers where they are.
Passive == ret' = NoRet /\ UNCHANGED <<ca_conn_ress, lock, nops, script>> /\ Quiet

\* The answer to a command of connection c: channel_add answers whether the
\* channel is new, every other command is a query or the shutdown.
Answer(c, cmd) == IF cmd.kind = "channel_add" THEN cmd.ch \notin conns[c].channels ELSE TRUE

\* The CaConn of connection c takes the next command and answers it; a
\* shutdown makes the stream end.
ConnHandleCommand(c) ==
    /\ c \in DOMAIN conns
    /\ conns[c].state = "running"
    /\ conns[c].queue # <<>>
    /\ LET cmd == Head(conns[c].queue) IN
          /\ ops' = IF cmd.by = 0 THEN ops
                    ELSE [ops EXCEPT ![cmd.by].replies[cmd.slot] =
                             [@ EXCEPT !.st = "ok", !.from = c, !.val = Answer(c, cmd)]]
          /\ conns' = [conns EXCEPT ![c].queue = Tail(@),
                                    ![c].channels = IF cmd.kind = "channel_add" THEN @ \cup {cmd.ch} ELSE @,
                                    ![c].state = IF cmd.kind = "shutdown" THEN "closing" ELSE @]
    /\ Passive

\* The task of connection c ends as `how`, its CaConn having taken n commands
\* it never answers.
TaskEnd(c, how, n) ==
    LET q == conns[c].queue
        os == [p \in Callers |->
                 [ops[p] EXCEPT !.replies =
                    [i \in 1..Len(ops[p].replies) |->
                        IF \E j \in 1..n : q[j].by = p /\ q[j].slot = i
                        THEN [ops[p].replies[i] EXCEPT !.st = "dropped"]
                        ELSE ops[p].replies[i]]]]
        cs == [conns EXCEPT ![c].queue = SubSeq(q, n + 1, Len(q)), ![c].state = how]
    IN /\ conns' = DropQueues(cs, ca_conn_ress)
       /\ ops' = DropReplies(os, cs, ca_conn_ress)

\* The CaConn takes a command and fails before it answers: the reply sender is
\* dropped and the stream yields the error, which ends the task.
ConnDropCommand(c) ==
    /\ c \in DOMAIN conns
    /\ conns[c].state = "running"
    /\ conns[c].queue # <<>>
    /\ TaskEnd(c, "err", 1)
    /\ Passive

\* conn.next() yields None after the shutdown: the task returns Ok(()).
ConnFinish(c) ==
    /\ c \in DOMAIN conns
    /\ conns[c].state = "closing"
    /\ TaskEnd(c, "ok", 0)
    /\ Passive

\* The peer closes the connection (the stream ends, Ok) or the CaConn yields
\* an error (the task returns it).
ConnEnd(c, how) ==
    /\ c \in DOMAIN conns
    /\ conns[c].state = "running"
    /\ TaskEnd(c, how, 0)
    /\ Passive

(***************************************************************************)
(* The forwarding loop of a connection task (conn_fut in create_ca_conn)   *)
(* in detail: what the CaConn stream yields is the environment's choice.   *)
(* The capacity of the event channel is scaled from 10000 to ItemCap.      *)
(***************************************************************************)
NumFwd == 2
FwdIds == 1..NumFwd
\* items a CaConn yields at most
MaxItems == 2
ItemCap == 2

\* The task as spawned: before its first conn.next().
NewTask ==
    [pc |-> "next", yielded |-> 0, conn_item_count |-> 0, last |-> "none",
     send_failed |-> FALSE, result |-> None]

\* A channel that hands the newest item out first.
DeliverFront(chan, item) == <<item>> \o chan

\* conn_item_tx.send(item) on a channel with room.
Deliver(chan, item) == Append(chan, item)

\* A channel without a bound.
HasRoomAlways(chan) == TRUE

\* async_channel::bounded: a send completes only below the capacity.
HasRoom(chan) == Len(chan) < ItemCap

\* A task whose result is Ok whatever ended it.
FwdEndsOk(f, how) == [f EXCEPT !.pc = "done", !.result = "Ok"]

\* The task returns: Ok(()) after the end of the stream, Err(e) out of the
\* Err arm or out of the `?` of the send.  The result is what the JoinHandle
\* in the CaConnRess yields.
FwdEnds(f, how) ==
    [f EXCEPT !.pc = "done", !.result = IF how = "end" THEN "Ok" ELSE "Err"]

\* conn.next().await gives Some(Ok(item)): stats.conn_item_count_inc(), then
\* the send is begun.
FwdNextItem(c) ==
    /\ c \in DOMAIN fwd
    /\ fwd[c].pc = "next"
    /\ fwd[c].yielded < MaxItems
    /\ fwd' = [fwd EXCEPT ![c] = [@ EXCEPT !.pc = "send", !.yielded = @ + 1,
                                           !.conn_item_count = @ + 1, !.last = "ok"]]
    /\ UNCHANGED <<conn_item_chan, conn_item_closed, conn_item_got>>
    /\ UNCHANGED <<series_vars, writer_vars, future_vars, connset_vars, ctor_vars, search_vars, more_vars>>

\* conn_item_tx.send(item).await?: fails on a closed channel, waits while the
\* channel is full, else queues the item and the loop goes on.
FwdSend(c) ==
    /\ c \in DOMAIN fwd
    /\ fwd[c].pc = "send"
    /\ IF conn_item_closed
       THEN /\ fwd' = [fwd EXCEPT ![c] = FwdEnds([@ EXCEPT !.send_failed = TRUE], "send")]
            /\ UNCHANGED conn_item_chan
       ELSE /\ HasRoom(conn_item_chan)
            /\ conn_item_chan' = Deliver(conn_item_chan, [from |-> c, k |-> fwd[c].yielded])
            /\ fwd' = [fwd EXCEPT ![c].pc = "next"]
    /\ UNCHANGED <<conn_item_closed, conn_item_got>>
    /\ UNCHANGED <<series_vars, writer_vars, future_vars, connset_vars, ctor_vars, search_vars, more_vars>>

\* conn.next().await gives Some(Err(e)): return Err(e).
FwdNextErr(c) ==
    /\ c \in DOMAIN fwd
    /\ fwd[c].pc = "next"
    /\ fwd' = [fwd EXCEPT ![c] = FwdEnds([@ EXCEPT !.last = "err"], "item")]
    /\ UNCHANGED <<conn_item_chan, conn_item_closed, conn_item_got>>
    /\ UNCHANGED <<series_vars, writer_vars, future_vars, connset_vars, ctor_vars, search_vars, more_vars>>

\* conn.next().await gives None: the loop ends, Ok(()).
FwdNextEnd(c) ==
    /\ c \in DOMAIN fwd
    /\ fwd[c].pc = "next"
    /\ fwd' = [fwd EXCEPT ![c] = FwdEnds([@ EXCEPT !.last = "end"], "end")]
    /\ UNCHANGED <<conn_item_chan, conn_item_closed, conn_item_got>>
    /\ UNCHANGED <<series_vars, writer_vars, future_vars, connset_vars, ctor_vars, search_vars, more_vars>>

\* A holder of conn_item_rx() receives the oldest item.
ItemRecv ==
    /\ ~conn_item_closed
    /\ conn_item_chan # <<>>
    /\ LET item == Head(conn_item_chan) IN
          conn_item_got' = [conn_item_got EXCEPT ![item.from] = Append(@, item.k)]
    /\ conn_item_chan' = Tail(conn_item_chan)
    /\ UNCHANGED <<fwd, conn_item_closed>>
    /\ UNCHANGED <<series_vars, writer_vars, future_vars, connset_vars, ctor_vars, search_vars, more_vars>>

\* The last receiver is gone (the set and every clone of conn_item_rx are
\* dropped) or the channel is closed by hand: sends fail from now on.
ItemChanClose ==
    /\ ~conn_item_closed
    /\ conn_item_closed' = TRUE
    /\ UNCHANGED <<fwd, conn_item_chan, conn_item_got>>
    /\ UNCHANGED <<series_vars, writer_vars, future_vars, connset_vars, ctor_vars, search_vars, more_vars>>

\* No forwarding task is looked at.
FwIdle ==
    /\ fwd = <<>>
    /\ conn_item_chan = <<>>
    /\ conn_item_closed = FALSE
    /\ conn_item_got = <<>>

\* NumFwd connections have been created: their tasks are spawned, the
\* channel is empty.
FwInit ==
    /\ fwd = [c \in FwdIds |-> NewTask]
    /\ conn_item_chan = <<>>
    /\ conn_item_closed = FALSE
    /\ conn_item_got = [c \in FwdIds |-> <<>>]

----------------------------------------------------------------------------
(***************************************************************************)
(* Writer construction: ChannelWriterAll::new (channelwriter.rs).          *)
(***************************************************************************)

\* No call of `new` yet.
NoNew ==
    [called |-> FALSE, series |-> 0, scalar_type |-> "F32", shape |-> "Scalar",
     byte_order |-> "BE", array_truncate |-> 0, res |-> <<>>]

\* ChannelWriterAll::new(series, .., scalar_type, shape, byte_order,
\* array_truncate): the Result is <<w>> for Ok(w) and <<>> for Err.
New(series, scalar_type, shape, byte_order, array_truncate) ==
    /\ made' = [called |-> TRUE, series |-> series, scalar_type |-> scalar_type,
                shape |-> shape, byte_order |-> byte_order,
                array_truncate |-> array_truncate,
                res |-> IF Supported(scalar_type, shape, byte_order)
                        THEN <<ChannelWriterAll_new(series, scalar_type, shape, byte_order,
                                                    array_truncate)>>
                        ELSE <<>>]
    /\ UNCHANGED <<series_vars, writer_vars, future_vars, connset_vars, forward_vars, search_vars, more_vars>>

CtIdle == made = NoNew

----------------------------------------------------------------------------
(***************************************************************************)
(* IOC search: ca_search (ca/search.rs).                                   *)
(***************************************************************************)

\* Addresses: NumIps hosts, each with an IPv4 and an IPv6 address, and two
\* ports.
NumIps == 2
Ips == 1..NumIps
PORT_DEFAULT == 5064
Ports == {PORT_DEFAULT, PORT_DEFAULT + 1}
SocketAddrV4s == [ip : Ips, port : Ports]
SocketAddrs == [fam : {"V4", "V6"}, ip : Ips, port : Ports]

\* SocketAddr::V4(x)
V4(x) == [fam |-> "V4", ip |-> x.ip, port |-> x.port]

\* x.to_string() of a SocketAddrV4: the text "ip:port", as its two parts.
to_string(x) == <<"text", x.ip, x.port>>

\* The strings of the configuration: "ip:port", "ip", "host:port", "host";
\* port is <<p>> where the string has one, else <<>>.
AddrStrs ==
    [form : {"sock"}, fam : {"V4", "V6"}, ip : Ips, port : {<<p>> : p \in Ports}]
        \cup [form : {"ip"}, fam : {"V4", "V6"}, ip : Ips, port : {<<>>}]
        \cup [form : {"host"}, fam : {"V4"}, ip : {1}, port : {<<>>} \cup {<<p>> : p \in Ports}]

\* resolve_address(addr_str): the results it can return, <<a>> for Ok(a) and
\* <<>> for Err. A string that parses gives its address, with PORT_DEFAULT
\* when it has no port; a host name gives the first address of the lookup,
\* whatever that is, or an error.
resolve_address(addr_str) ==
    CASE addr_str.form = "sock" ->
            {<<[fam |-> addr_str.fam, ip |-> addr_str.ip, port |-> addr_str.port[1]]>>}
      [] addr_str.form = "ip" ->
            {<<[fam |-> addr_str.fam, ip |-> addr_str.ip, port |-> PORT_DEFAULT]>>}
      [] addr_str.form = "host" ->
            LET port == IF addr_str.port = <<>> THEN PORT_DEFAULT ELSE addr_str.port[1] IN
            {<<>>} \cup {<<[fam |-> f, ip |-> i, port |-> port]>> : f \in {"V4", "V6"}, i \in Ips}

\* gw_addrs: the blacklist strings resolved in order, the failures left out.
MaxBlacklist == 2
RECURSIVE ResolveAll(_)
ResolveAll(strs) ==
    IF strs = <<>> THEN {<<>>}
    ELSE {r \o rest : r \in resolve_address(Head(strs)), rest \in ResolveAll(Tail(strs))}
Blacklists == UNION {[1..n -> AddrStrs] : n \in 0..MaxBlacklist}

\* A block test that looks at the sender of the response only.
DoBlockSenderOnly(item, gws) ==
    \E j \in 1..Len(gws) :
        item.response_addr # <<>> /\ V4(item.response_addr[1]) = gws[j]

\* do_block after the two loops over gw_addrs for one item.
DoBlock(item, gws) ==
    \/ \E j \in 1..Len(gws) :
          item.response_addr # <<>> /\ V4(item.response_addr[1]) = gws[j]
    \/ /\ item.addr # <<>>
       /\ \E j \in 1..Len(gws) : V4(item.addr[1]) = gws[j]

\* The row of ioc_by_channel_log for an item (the facility is the same in
\* every row).
LogRow(item) ==
    [channel |-> item.channel,
     responseaddr |-> IF item.response_addr = <<>> THEN <<>> ELSE <<to_string(item.response_addr[1])>>,
     addr |-> IF item.addr = <<>> THEN <<>> ELSE <<to_string(item.addr[1])>>]

\* for item in item { .. }: the rows inserted for one batch of results.
RECURSIVE LogRows(_, _)
LogRows(items, gws) ==
    IF items = <<>> THEN <<>>
    ELSE (IF DoBlock(Head(items), gws) THEN <<>> ELSE <<LogRow(Head(items))>>)
             \o LogRows(Tail(items), gws)

\* What the finder yields: results for one channel, with no address or one
\* of two, in batches; MaxFound results and MaxPulls pulls in all.
MaxFound == 2
MaxPulls == 3
ItemAddrs == {[ip |-> 1, port |-> PORT_DEFAULT], [ip |-> NumIps, port |-> PORT_DEFAULT + 1]}
OptAddrs == {<<>>} \cup {<<a>> : a \in ItemAddrs}
FindIocRes == [channel : {"ch1"}, response_addr : OptAddrs, addr : OptAddrs]
Batches(n) == UNION {[1..k -> FindIocRes] : k \in 0..n}

\* A loop that also ends when the pull times out.
LoopAfterTimeoutBreaks(k) == IF k \in {"none", "timeout"} THEN "done" ELSE "loop"

\* Where the loop of ca_search goes after a pull gave k: it breaks on
\* Ok(None) and continues after a timeout, an Err item and a batch.
LoopAfter(k) == IF k = "none" THEN "done" ELSE "loop"

\* One pass of the loop of ca_search whose pull gives Ok(Some(Ok(items))).
SearchBatch(items) ==
    /\ search_pc = "loop"
    /\ search_n < MaxPulls
    /\ search_found + Len(items) <= MaxFound
    /\ search_n' = search_n + 1
    /\ search_pc' = LoopAfter("batch")
    /\ search_found' = search_found + Len(items)
    /\ search_log' = search_log \o LogRows(items, gw_addrs)
    /\ UNCHANGED <<gw_addrs, series_vars, writer_vars, future_vars, connset_vars, forward_vars, ctor_vars, aux_vars>>

\* The pull times out after 1500 ms: continue.
SearchTimeout ==
    /\ search_pc = "loop"
    /\ search_n < MaxPulls
    /\ search_n' = search_n + 1
    /\ search_pc' = LoopAfter("timeout")
    /\ UNCHANGED <<gw_addrs, search_log, search_found, series_vars, writer_vars, future_vars, connset_vars, forward_vars, ctor_vars, aux_vars>>

\* The pull gives Ok(Some(Err(e))): continue.
SearchItemErr ==
    /\ search_pc = "loop"
    /\ search_n < MaxPulls
    /\ search_n' = search_n + 1
    /\ search_pc' = LoopAfter("err")
    /\ UNCHANGED <<gw_addrs, search_log, search_found, series_vars, writer_vars, future_vars, connset_vars, forward_vars, ctor_vars, aux_vars>>

\* The pull gives Ok(None): break.
SearchExhausted ==
    /\ search_pc = "loop"
    /\ search_pc' = LoopAfter("none")
    /\ search_n' = search_n + 1
    /\ UNCHANGED <<gw_addrs, search_log, search_found, series_vars, writer_vars, future_vars, connset_vars, forward_vars, ctor_vars, aux_vars>>

\* ca_search at the start of its loop, for any configured blacklist.
SrInit ==
    /\ \E strs \in Blacklists : gw_addrs \in ResolveAll(strs)
    /\ search_log = <<>>
    /\ search_pc = "loop"
    /\ search_n = 0
    /\ search_found = 0

SrIdle ==
    /\ gw_addrs = <<>>
    /\ search_log = <<>>
    /\ search_pc = "done"
    /\ search_n = 0
    /\ search_found = 0

----------------------------------------------------------------------------
(***************************************************************************)
(* IOC finder: FindIocStream as ca_search uses it (ca/search.rs); the      *)
(* stream itself is described in the specification of the program.         *)
(***************************************************************************)

\* The channel names pushed to the finder, in order.
NumFiChans == 2
FiChans == 1..NumFiChans

\* FindIocStream::new(addrs, 1000 ms, 20, 1): the in-flight limit (scaled)
\* and the retry limit.
MaxInFlight == 2
RetryLimit == 1

\* Whether a query that was sent `sent` times is sent again at its deadline.
CanRetry(sent) == sent - 1 < RetryLimit

InFlight == {c \in FiChans : fi.q[c].st = "flight"}

\* The input is exhausted, no query is in flight, no result waits.
FiEnded == fi.ready = <<>> /\ \A c \in FiChans : fi.q[c].st = "yielded"

NotFound(c) == [channel |-> c, response_addr |-> <<>>, addr |-> <<>>]

\* The finder takes the next name of its input and sends the query.
FiQuery(c) ==
    /\ search_pc = "loop"
    /\ fi.q[c].st = "input"
    /\ \A d \in FiChans : d < c => fi.q[d].st # "input"
    /\ Cardinality(InFlight) < MaxInFlight
    /\ fi' = [fi EXCEPT !.q[c] = [st |-> "flight", sent |-> 1]]
    /\ UNCHANGED <<old_vars, search_vars, aux_vars>>

\* A reply that matches the query of c arrives before the deadline.
FiReply(c, a) ==
    /\ search_pc = "loop"
    /\ fi.q[c].st = "flight"
    /\ fi' = [fi EXCEPT !.q[c].st = "ready",
                        !.ready = Append(@, [channel |-> c, response_addr |-> <<a>>,
                                             addr |-> <<a>>])]
    /\ UNCHANGED <<old_vars, search_vars, aux_vars>>

\* The deadline of the query of c passes: it is sent again, or given up as
\* not found.
FiDeadline(c) ==
    /\ search_pc = "loop"
    /\ fi.q[c].st = "flight"
    /\ IF CanRetry(fi.q[c].sent)
       THEN fi' = [fi EXCEPT !.q[c].sent = @ + 1]
       ELSE fi' = [fi EXCEPT !.q[c].st = "ready", !.ready = Append(@, NotFound(c))]
    /\ UNCHANGED <<old_vars, search_vars, aux_vars>>

\* The pull of ca_search gives the results that wait.
FiYield ==
    /\ fi.ready # <<>>
    /\ SearchBatch(fi.ready)
    /\ fi' = [fi EXCEPT !.ready = <<>>,
                        !.q = [c \in FiChans |->
                                  IF fi.q[c].st = "ready"
                                  THEN [fi.q[c] EXCEPT !.st = "yielded"]
                                  ELSE fi.q[c]]]

\* No result before the pull timeout of 1500 ms.
FiPullTimeout == fi.ready = <<>> /\ ~FiEnded /\ SearchTimeout /\ UNCHANGED fi

\* The stream gives an error item.
FiPullErr == ~FiEnded /\ SearchItemErr /\ UNCHANGED fi

\* The stream has ended.
FiPullNone == FiEnded /\ SearchExhausted /\ UNCHANGED fi

FiInit ==
    fi = [q |-> [c \in FiChans |-> [st |-> "input", sent |-> 0]], ready |-> <<>>]

\* ca_search at the start of its loop with no blacklist configured.
SrInitOpen ==
    /\ gw_addrs = <<>>
    /\ search_log = <<>>
    /\ search_pc = "loop"
    /\ search_n = 0
    /\ search_found = 0

----------------------------------------------------------------------------
(***************************************************************************)
(* Command queue index: CommandQueueSet (ca/connset.rs).                   *)
(***************************************************************************)

\* The loop of queues_locked over the map: the entries whose sender is not
\* closed.
CqPurge(queues, closed) == queues \ closed

\* What a reader that holds the lock on the map `queues` reads: each entry
\* with whether its sender is closed.
CqView(queues, closed) == {[addr |-> a, closed |-> a \in closed] : a \in queues}

\* queues_locked(): lock, remove the closed entries, return the guard.
CqQueuesLocked ==
    /\ cq' = [cq EXCEPT !.queues = CqPurge(cq.queues, cq.closed),
                        !.via = "queues_locked",
                        !.open_before = cq.queues \ cq.closed,
                        !.seen = CqView(CqPurge(cq.queues, cq.closed), cq.closed)]
    /\ UNCHANGED <<old_vars, search_vars, fi, chst, spo, tsplit, tscan>>

\* queues(): the mutex itself; the reader locks it and reads the map.
CqQueues ==
    /\ cq' = [cq EXCEPT !.via = "queues",
                        !.open_before = cq.queues \ cq.closed,
                        !.seen = CqView(cq.queues, cq.closed)]
    /\ UNCHANGED <<old_vars, search_vars, fi, chst, spo, tsplit, tscan>>

\* The receiver of the command channel of `a` goes away: the sender in the
\* index is closed from then on.
CqClose(a) ==
    /\ a \in cq.queues \ cq.closed
    /\ cq' = [cq EXCEPT !.closed = @ \cup {a}, !.via = "none", !.seen = {},
                        !.open_before = {}]
    /\ UNCHANGED <<old_vars, search_vars, fi, chst, spo, tsplit, tscan>>

\* An index with any entries, some of them with a closed sender, not yet
\* read.
CqInit ==
    \E queues \in SUBSET SocketAddrV4s, closed \in SUBSET SocketAddrV4s :
        /\ closed \subseteq queues
        /\ cq = [queues |-> queues, closed |-> closed, via |-> "none", seen |-> {},
                 open_before |-> {}]

----------------------------------------------------------------------------
(***************************************************************************)
(* Channel states listing: channel_states (metrics.rs).                    *)
(***************************************************************************)

\* The replies of NumCsConns connections, each with up to MaxInfos
\* ChannelStateInfo of an interest_score in 0..MaxScore; take(10) is scaled
\* to TakeN.
NumCsConns == 2
MaxInfos == 2
MaxScore == 2
TakeN == 2

\* for h in vals { for j in h.1 { res.push(j) } }
RECURSIVE Flatten(_)
Flatten(vals) == IF vals = <<>> THEN <<>> ELSE Head(vals) \o Flatten(Tail(vals))

\* The key of the sort: u32::MAX - v.interest_score as u32, in the scale of
\* the scores.
SortKey(v) == MaxScore - v.interest_score

\* sort_unstable_by_key: the orders of `res` with the keys ascending; equal
\* keys come in any order.
SortedByKey(res) ==
    LET n == Len(res)
        perms == {p \in [1..n -> 1..n] : \A i, j \in 1..n : i # j => p[i] # p[j]}
        sorted == {p \in perms : \A i \in 1..n - 1 : SortKey(res[p[i]]) <= SortKey(res[p[i + 1]])}
    IN {[i \in 1..n |-> res[p[i]]] : p \in sorted}

\* res.into_iter().rev().take(10).collect()
RevTake(res) == SubSeq(Reverse(res), 1, Min(Len(res), TakeN))

\* channel_states: the answer for the replies `vals` of send_command_to_all.
ChannelStates(vals) ==
    /\ \E sorted \in SortedByKey(Flatten(vals)) :
          chst' = [called |-> TRUE, vals |-> vals, res |-> RevTake(sorted)]
    /\ UNCHANGED <<old_vars, search_vars, fi, cq, spo, tsplit, tscan>>

\* The replies: per connection a list of infos, each with the connection,
\* its place in the list and a score.
InfoLists(c) ==
    UNION {{[i \in 1..n |-> [conn |-> c, nth |-> i, interest_score |-> f[i]]] :
              f \in [1..n -> 0..MaxScore]} : n \in 0..MaxInfos}
ValsSet == {<<a, b>> : a \in InfoLists(1), b \in InfoLists(NumCsConns)}

ChstInit == chst = [called |-> FALSE, vals |-> <<>>, res |-> <<>>]

FiIdle == fi = <<>>
CqIdle == cq = <<>>
ChstIdle == chst = <<>>
SpIdle == spo = <<>>
TsplitIdle == tsplit = <<>>
TscanIdle == tscan = <<>>
MoreIdle == FiIdle /\ CqIdle /\ ChstIdle /\ SpIdle /\ TsplitIdle /\ TscanIdle

----------------------------------------------------------------------------
\* The states the components start in.
CsInit ==
    /\ ca_conn_ress = EmptyMap
    /\ lock = 0
    /\ conns = <<>>
    /\ ops = [p \in Callers |-> IdleOp]
    /\ nops = 0
    /\ ret = NoRet
    /\ log = <<>>

InitSeries == GsInit /\ CwIdle /\ CsInit /\ FwIdle /\ CtIdle /\ SrIdle /\ MoreIdle /\ script = "free"

InitWriter == GsIdle /\ CwInit /\ CsInit /\ FwIdle /\ CtIdle /\ SrIdle /\ MoreIdle /\ script = "free"

InitConnSet == GsIdle /\ CwIdle /\ CsInit /\ FwIdle /\ CtIdle /\ SrIdle /\ MoreIdle /\ script = "free"

InitStop == GsIdle /\ CwIdle /\ CsInit /\ FwIdle /\ CtIdle /\ SrIdle /\ MoreIdle /\ script = "create"

InitWriteFut == GsIdle /\ CwInitFut /\ CsInit /\ FwIdle /\ CtIdle /\ SrIdle /\ MoreIdle /\ script = "free"

InitForward == GsIdle /\ CwIdle /\ CsInit /\ FwInit /\ CtIdle /\ SrIdle /\ MoreIdle /\ script = "free"

\* Writers of the integer channel types, as constructed.
DecodeKinds ==
    {<<"U16", "Scalar", "BE">>, <<"U32", "Scalar", "BE">>, <<"U16", "Wave", "LE">>,
     <<"I16", "Wave", "BE">>}
CwInitDecode ==
    \E k \in DecodeKinds :
        SetWriter(FreshWriter(ChannelWriterAll_new(7, k[1], k[2], k[3], ArrayTruncate)))

InitDecode == GsIdle /\ CwInitDecode /\ CsInit /\ FwIdle /\ CtIdle /\ SrIdle /\ MoreIdle /\ script = "free"

InitSearch == GsIdle /\ CwIdle /\ CsInit /\ FwIdle /\ CtIdle /\ SrInit /\ MoreIdle /\ script = "free"

InitFind ==
    /\ GsIdle /\ CwIdle /\ CsInit /\ FwIdle /\ CtIdle /\ SrInitOpen /\ FiInit
    /\ CqIdle /\ ChstIdle /\ SpIdle /\ TsplitIdle /\ TscanIdle /\ script = "free"

InitQueues ==
    /\ GsIdle /\ CwIdle /\ CsInit /\ FwIdle /\ CtIdle /\ SrIdle /\ FiIdle
    /\ CqInit /\ ChstIdle /\ SpIdle /\ TsplitIdle /\ TscanIdle /\ script = "free"

InitChst ==
    /\ GsIdle /\ CwIdle /\ CsInit /\ FwIdle /\ CtIdle /\ SrIdle /\ FiIdle
    /\ CqIdle /\ ChstInit /\ SpIdle /\ TsplitIdle /\ TscanIdle /\ script = "free"

InitNew == GsIdle /\ CwIdle /\ CsInit /\ FwIdle /\ CtIdle /\ SrIdle /\ MoreIdle /\ script = "free"

----------------------------------------------------------------------------
\* The specifications.

\* Callers of get_series_id on one catalog.
NextSeries ==
    \E p \in GsCallers :
        \/ \E k \in Keys : GsQuery(p, k)
        \/ GsAttempt(p)
        \/ GsGiveUp(p)

SpecSeries == InitSeries /\ [][NextSeries]_vars

\* The owner of one ChannelWriterAll.
NextWriter ==
    \E ts \in TsVals(cw), pulse \in Pulses, fr \in Frames : WriteMsg(ts, pulse, fr)

SpecWriter == InitWriter /\ [][NextWriter]_vars

\* The owner of the writer polls the future of each call until it is Ready,
\* or drops it with the next call.
NextWriteFut ==
    \/ \E ts \in FutTsVals(cw), pulse \in Pulses : WriteMsg(ts, pulse, Frame(8))
    \/ \E now \in 0..MaxClock, ts2 \in 0..MaxClock, r1 \in ChildAnswers, r2 \in ChildAnswers :
          Poll(now, ts2, r1, r2)

SpecWriteFut == InitWriteFut /\ [][NextWriteFut]_vars

\* An owner that also polls a future that has been Ready.
NextWriteFutAgain ==
    \/ \E ts \in FutTsVals(cw), pulse \in Pulses : WriteMsg(ts, pulse, Frame(8))
    \/ \E now \in 0..MaxClock, ts2 \in 0..MaxClock, r1 \in ChildAnswers, r2 \in ChildAnswers :
          Poll(now, ts2, r1, r2)
    \/ \E now \in 0..MaxClock, ts2 \in 0..MaxClock, r1 \in ChildAnswers, r2 \in ChildAnswers :
          PollAgain(now, ts2, r1, r2)

SpecWriteFutAgain == InitWriteFut /\ [][NextWriteFutAgain]_vars

\* Callers of one CaConnSet, each calling any operation, and the connection
\* tasks.
NextConnSet ==
    \/ \E p \in Callers :
          \/ \E addr \in V4Addrs, chs \in SUBSET ChanNames : CreateCaConn(p, addr, chs)
          \/ InsertRess(p)
          \/ \E kind \in QueryKinds : SendAllLock(p, "send_command_to_all", kind)
          \/ SendAllLock(p, "send_stop", "shutdown")
          \/ SendAllSend(p)
          \/ SendAllUnlock(p)
          \/ SendAllRecv(p)
          \/ \E addr \in Addrs, kind \in QueryKinds : SendAddrLock(p, addr, kind)
          \/ SendAddrSend(p)
          \/ SendAddrRecv(p)
          \/ WaitStoppedLock(p)
          \/ WaitStoppedJoin(p)
          \/ WaitStoppedTimeout(p)
          \/ WaitStoppedReturn(p)
          \/ \E addr \in Addrs, ch \in ChanNames : AddChannelLock(p, addr, ch)
          \/ AddChannelSend(p)
          \/ AddChannelRecv(p)
          \/ AddChannelCreate(p)
    \/ \E c \in ConnIds :
          \/ ConnHandleCommand(c)
          \/ ConnDropCommand(c)
          \/ ConnFinish(c)
          \/ \E how \in {"ok", "err"} : ConnEnd(c, how)

SpecConnSet == InitConnSet /\ [][NextConnSet]_vars

\* One caller runs create_ca_conn, send_stop, wait_stopped in sequence; the
\* connection tasks answer their commands and end after the shutdown.
NextStop ==
    \/ \E addr \in V4Addrs, chs \in SUBSET ChanNames : CreateCaConn(1, addr, chs)
    \/ InsertRess(1)
    \/ SendAllLock(1, "send_stop", "shutdown")
    \/ SendAllSend(1)
    \/ SendAllUnlock(1)
    \/ SendAllRecv(1)
    \/ WaitStoppedLock(1)
    \/ WaitStoppedJoin(1)
    \/ WaitStoppedTimeout(1)
    \/ WaitStoppedReturn(1)
    \/ \E c \in ConnIds : ConnHandleCommand(c) \/ ConnFinish(c)

\* The caller makes its calls and the executor runs every task that can run;
\* the sleep of the select! may win any number of times.
FairStop ==
    /\ WF_vars(\E addr \in V4Addrs, chs \in SUBSET ChanNames : CreateCaConn(1, addr, chs))
    /\ WF_vars(InsertRess(1))
    /\ WF_vars(SendAllLock(1, "send_stop", "shutdown"))
    /\ WF_vars(SendAllSend(1))
    /\ WF_vars(SendAllUnlock(1))
    /\ WF_vars(SendAllRecv(1))
    /\ WF_vars(WaitStoppedLock(1))
    /\ WF_vars(WaitStoppedJoin(1))
    /\ WF_vars(WaitStoppedReturn(1))
    /\ \A c \in ConnIds : WF_vars(ConnHandleCommand(c) \/ ConnFinish(c))

SpecStop == InitStop /\ [][NextStop]_vars /\ FairStop

\* Callers that create connections and pick an address with addr_nth_mod.
MaxN == 4
NextLookup ==
    \E p \in Callers :
        \/ \E addr \in V4Addrs, chs \in SUBSET ChanNames : CreateCaConn(p, addr, chs)
        \/ InsertRess(p)
        \/ \E n \in 0..MaxN : AddrNthMod(p, n)

SpecLookup == InitConnSet /\ [][NextLookup]_vars

\* The forwarding tasks of the connections and the receiving side of the
\* event channel.
NextForward ==
    \/ \E c \in FwdIds :
          \/ FwdNextItem(c)
          \/ FwdSend(c)
          \/ FwdNextErr(c)
          \/ FwdNextEnd(c)
    \/ ItemRecv
    \/ ItemChanClose

SpecForward == InitForward /\ [][NextForward]_vars

\* A sender that waits on the full channel is woken when a slot opens, and
\* the receiver keeps receiving while the channel is open.
FairForward ==
    /\ \A c \in FwdIds : SF_vars(FwdSend(c))
    /\ WF_vars(ItemRecv)

SpecForwardFair == InitForward /\ [][NextForward]_vars /\ FairForward

(***************************************************************************)
(* Properties of get_series_id, under SpecSeries.                          *)
(***************************************************************************)

\* C1: two get_series_id calls that run concurrently with the same tuple on a
\* catalog that had no row for it both return successfully with the same id,
\* one Created and one Existing or both Existing; neither returns an error.
C1_ConcurrentCallsAgree ==
    \A p, q \in GsCallers :
        (/\ p # q
         /\ gs[p].pc = "done" /\ gs[q].pc = "done"
         /\ gs[p].key = gs[q].key
         /\ SelectSeries(cat0, gs[p].key) = {})
        => /\ gs[p].ret.tag \in {"Created", "Existing"}
           /\ gs[q].ret.tag \in {"Created", "Existing"}
           /\ gs[p].ret.id = gs[q].ret.id
           /\ ~(gs[p].ret.tag = "Created" /\ gs[q].ret.tag = "Created")

(***************************************************************************)
(* Properties of ChannelWriterAll, under SpecWriter (write_msg is called   *)
(* in non-decreasing ts order).                                            *)
(***************************************************************************)

\* C2: with timestamps that never decrease, at most one ts_msp index row is
\* staged for each distinct bucket: no two staged rows have the same ts_msp.
C2_OneIndexRowPerBucket ==
    \A i, j \in DOMAIN cw_idx : i < j => cw_idx[i].ts_msp # cw_idx[j].ts_msp

\* Two buckets have their row staged and the last call, a later write into
\* the bucket of the call before, staged none.
C2_Witness ==
    /\ Len(cw_idx) >= 2
    /\ cw_calls >= 3
    /\ ~cw_last.panic
    /\ ~cw_last.first
    /\ cw_last.fut1 = <<>>
    /\ cw_idx[Len(cw_idx)].ts_msp = cw_last.ts_msp

\* C3: the first write_msg that falls into a bucket stages exactly one index
\* row (series, ts_msp, dtype_mark), the very first write on a fresh writer
\* included, for any series and any ts; a later write into the same bucket
\* stages none.
C3_FirstWriteStagesIndexRow ==
    (cw_calls > 0 /\ ~cw_last.panic)
    => IF cw_last.first
       THEN cw_last.fut1 = <<IndexRow(cw, cw_last.ts_msp)>>
       ELSE cw_last.fut1 = <<>>

(***************************************************************************)
(* Properties of CaConnSet.  C4 is stated under SpecStop, the others under *)
(* SpecConnSet.                                                            *)
(***************************************************************************)
Range(s) == {s[i] : i \in DOMAIN s}

IsSendAll(o) == o.op \in {"send_command_to_all", "send_stop"}

\* The receivers of the commands whose send succeeded, in the order sent.
SentReplies(o) == SelectSeq(o.replies, LAMBDA r : r.sent)

\* The commands of caller p that sit in the queue of connection c.
QueuedBy(p, c) == {i \in DOMAIN conns[c].queue : conns[c].queue[i].by = p}

\* C4: when create_ca_conn, send_stop and wait_stopped are called in sequence
\* and the connection tasks end after the shutdown, wait_stopped eventually
\* returns and the map is empty from then on.
C4_StopTerminates == <>[](script = "end" /\ ops[1].pc = "idle" /\ ca_conn_ress = EmptyMap)

\* wait_stopped has returned Ok after it took two connections out of the map.
C4_Witness ==
    /\ script = "end"
    /\ ret.by = 1
    /\ ret.o.op = "wait_stopped"
    /\ ret.o.result = "Ok"
    /\ Len(ret.o.taken) >= 2
    /\ ca_conn_ress = EmptyMap

\* C5, the states: wait_stopped returns only when every join handle it took
\* has completed; while it loops, every handle it took is either joined or in
\* the queue, once; the N it logs is the number of handles not yet joined, the
\* re-queued one included.
C5_Joins ==
    /\ ret.o.op = "wait_stopped"
       => /\ \A c \in Range(ret.o.taken) : Finished(c)
          /\ ret.o.njoined = Len(ret.o.taken)
          /\ ret.o.jhs = <<>>
    /\ \A p \in Callers :
          ops[p].pc = "ws_loop"
          => /\ Len(ops[p].jhs) + ops[p].njoined = Len(ops[p].taken)
             /\ Cardinality(Range(ops[p].jhs)) = Len(ops[p].jhs)
             /\ Range(ops[p].jhs) \subseteq Range(ops[p].taken)
             /\ \A c \in Range(ops[p].taken) \ Range(ops[p].jhs) : Finished(c)
    /\ log # <<>>
       => /\ ops[log[1].by].pc = "ws_loop"
          /\ log[1].n = Len(ops[log[1].by].jhs)
          /\ log[1].n = Len(ops[log[1].by].taken) - ops[log[1].by].njoined

\* C5, the steps: the sleep branch puts the handle it popped at the end of the
\* queue and keeps the others in order.
C5_RequeueStep ==
    \A p \in Callers :
        (log' # <<>> /\ log'[1].by = p)
        => /\ ops[p].jhs # <<>>
           /\ ops'[p].jhs = Append(Tail(ops[p].jhs), Head(ops[p].jhs))

\* C5: wait_stopped returns only after every join handle it took has
\* completed; a join that times out is re-queued at the end of the queue and
\* never dropped, and 'waiting for N connections' is logged with N the number
\* of outstanding joins including the re-queued one.
C5_JoinSupervision == []C5_Joins /\ [][C5_RequeueStep]_vars

\* One handle is joined and another has just timed out and been re-queued.
C5_Witness ==
    /\ log # <<>>
    /\ log[1].n >= 1
    /\ ops[log[1].by].njoined >= 1

\* C6: no CaConnSet operation holds the map lock while it awaits a reply or a
\* join: not send_command_to_all, send_command_to_addr, add_channel_to_addr
\* nor wait_stopped.
C6_NoLockWhileAwaiting ==
    \A p \in Callers :
        (\/ ops[p].pc \in {"sa_recv", "st_recv", "ac_recv"}
         \/ ops[p].pc = "ws_loop" /\ ops[p].jhs # <<>>)
        => lock # p

\* C7: send_command_to_all generates exactly one fresh command per connection
\* in the map, sends all of them before it awaits any reply, and returns the
\* replies of exactly the connections whose send succeeded, in address-key
\* order.
C7_SendAllFanOut ==
    /\ \A p \in Callers :
          /\ ops[p].pc = "sa_send" => ops[p].res = <<>>
          /\ ops[p].pc = "sa_recv" => ops[p].todo = <<>>
    /\ IsSendAll(ret.o)
       => LET o == ret.o
              ks == SortedKeys(DOMAIN o.map0)
              sent == SentReplies(o)
          IN /\ Len(o.replies) = Len(ks)
             /\ \A i \in DOMAIN ks : o.replies[i].to = o.map0[ks[i]]
             /\ o.result = "Ok"
                => /\ Len(o.res) = Len(sent)
                   /\ \A j \in DOMAIN sent :
                         o.res[j] = [from |-> sent[j].to, val |-> sent[j].val]

\* send_command_to_all has returned the replies of two connections.
C7_Witness ==
    /\ ret.o.op = "send_command_to_all"
    /\ ret.o.result = "Ok"
    /\ Len(ret.o.res) = 2
    /\ ret.o.res[1].from # ret.o.res[2].from

\* C8: a failed send only takes that connection out of the reply set, the
\* call still succeeds; a failed receive makes the whole call an Err with no
\* partial list.
C8_SendAllFailures ==
    IsSendAll(ret.o)
    => LET o == ret.o IN
       /\ o.result \in {"Ok", "Err"}
       /\ o.result = "Err"
          => /\ o.res = <<>>
             /\ \E i \in DOMAIN o.replies : o.replies[i].sent /\ o.replies[i].st = "dropped"
       /\ o.result = "Ok"
          => /\ \A i \in DOMAIN o.replies : o.replies[i].sent => o.replies[i].st = "ok"
             /\ Len(o.res) = Len(SentReplies(o))

\* The call has succeeded with the reply of one connection although the send
\* to another failed.
C8_Witness ==
    /\ IsSendAll(ret.o)
    /\ ret.o.result = "Ok"
    /\ Len(ret.o.res) >= 1
    /\ \E i \in DOMAIN ret.o.replies : ~ret.o.replies[i].sent

\* C9: send_command_to_addr on an address that is not in the map returns Err
\* without generating or sending a command and leaves the map unchanged; on
\* an address in the map it sends exactly one command, to that connection
\* only, and returns its reply.
C9_SendToAddr ==
    /\ ret.o.op = "send_command_to_addr"
       => LET o == ret.o IN
          IF o.addr \notin DOMAIN o.map0
          THEN /\ o.result = "Err"
               /\ o.replies = <<>>
               /\ ca_conn_ress = o.map0
               /\ \A c \in DOMAIN conns : QueuedBy(ret.by, c) = {}
          ELSE /\ Len(o.replies) = 1
               /\ o.replies[1].to = o.map0[o.addr]
               /\ o.result = "Ok"
                  => /\ o.replies[1].sent
                     /\ o.res = <<[from |-> o.map0[o.addr], val |-> o.replies[1].val]>>
    /\ \A p \in Callers :
          ops[p].op = "send_command_to_addr"
          => \A c \in DOMAIN conns :
                IF c = ops[p].map0[ops[p].addr]
                THEN Cardinality(QueuedBy(p, c)) <= 1
                ELSE QueuedBy(p, c) = {}

\* The call has returned the reply of the second of two connections.
C9_Witness ==
    /\ ret.o.op = "send_command_to_addr"
    /\ ret.o.result = "Ok"
    /\ Cardinality(DOMAIN ret.o.map0) = 2
    /\ ret.o.addr = SortedKeys(DOMAIN ret.o.map0)[2]

\* C10: add_channel_to_addr on an address with an entry sends exactly one
\* channel_add to that connection and creates no connection; on an IPv4
\* address without an entry it creates exactly one connection, registered
\* with only that channel, and inserts it under the address; on a non-IPv4
\* address without an entry it returns Err and leaves the map unchanged.
C10_AddChannel ==
    ret.o.op = "add_channel_to_addr"
    => LET o == ret.o IN
       IF o.addr \in DOMAIN o.map0
       THEN /\ o.created = <<>>
            /\ Len(o.replies) = 1
            /\ o.replies[1].kind = "channel_add"
            /\ o.replies[1].ch = o.ch
            /\ o.replies[1].to = o.map0[o.addr]
       ELSE IF IsV4(o.addr)
       THEN /\ o.result = "Ok"
            /\ o.replies = <<>>
            /\ Len(o.created) = 1
            /\ conns[o.created[1]].addr = o.addr
            /\ conns[o.created[1]].channels0 = {o.ch}
            /\ ca_conn_ress[o.addr] = o.created[1]
       ELSE /\ o.result = "Err"
            /\ o.created = <<>>
            /\ o.replies = <<>>
            /\ ca_conn_ress = o.map0

\* The call has created a connection beside one that was in the map.
C10_Witness ==
    /\ ret.o.op = "add_channel_to_addr"
    /\ ret.o.result = "Ok"
    /\ Len(ret.o.created) = 1
    /\ DOMAIN ret.o.map0 # {}

(***************************************************************************)
(* Properties of addr_nth_mod, under SpecLookup.                           *)
(***************************************************************************)

\* C11: addr_nth_mod(n) returns none on an empty map and on a map of len
\* keys the key at position n mod len of the ordered keys (positions from 0),
\* so never none on a non-empty map.
C11_NthKeyModLen ==
    ret.o.op = "addr_nth_mod" =>
        LET keys == SortedKeys(DOMAIN ret.o.map0)
            len == Len(keys)
        IN IF len = 0
           THEN ret.o.res = <<>>
           ELSE ret.o.res = <<keys[(ret.o.n % len) + 1]>>

(***************************************************************************)
(* Properties of the CaConnRess entries, under SpecConnSet.                *)
(***************************************************************************)

\* C12: the map entry of an address lives until the connection's task
\* terminates: the map holds no entry whose task has terminated, and an
\* add_channel_to_addr that finds the task of its address terminated creates
\* a connection.
C12_EntryEndsWithTask ==
    /\ \A a \in DOMAIN ca_conn_ress : ~Finished(ca_conn_ress[a])
    /\ (ret.o.op = "add_channel_to_addr" /\ ret.o.addr \in DOMAIN ret.o.map0
            /\ ret.o.replies # <<>> /\ ~ret.o.replies[1].sent)
        => Len(ret.o.created) = 1

(***************************************************************************)
(* Properties of the forwarding tasks, under SpecForward and               *)
(* SpecForwardFair.                                                        *)
(***************************************************************************)
UpTo(n) == [i \in 1..n |-> i]

\* The items of connection c that are in the event channel, oldest first.
InChan(c) ==
    LET own == SelectSeq(conn_item_chan, LAMBDA x : x.from = c) IN
    [i \in 1..Len(own) |-> own[i].k]

\* The items of connection c delivered to the event channel, in the order the
\* receivers get them: the items are numbered in the order the CaConn yields.
Delivered(c) == conn_item_got[c] \o InChan(c)

\* C13 as stated: every item a CaConn yields as Ok is delivered to the event
\* channel exactly once and in the order of the yields (all of them, whenever
\* the task is not inside a send), and the item counter counts them.
C13_EveryItemDelivered ==
    \A c \in DOMAIN fwd :
        /\ Delivered(c) = UpTo(Len(Delivered(c)))
        /\ fwd[c].conn_item_count = fwd[c].yielded
        /\ fwd[c].pc # "send" => Delivered(c) = UpTo(fwd[c].yielded)

\* C13, amended: the delivered items of a connection are the yielded ones,
\* once each and in order, but for the one item in a send that has not
\* completed or that has failed on a closed channel; the counter counts every
\* yielded item, the one whose send failed included.
C13_ItemsForwarded ==
    \A c \in DOMAIN fwd :
        /\ Delivered(c) = UpTo(Len(Delivered(c)))
        /\ fwd[c].conn_item_count = fwd[c].yielded
        /\ Len(Delivered(c)) = IF fwd[c].pc = "send" \/ fwd[c].send_failed
                                THEN fwd[c].yielded - 1
                                ELSE fwd[c].yielded

\* A task has delivered an item and lost the next to the closed channel.
C13_Witness ==
    \E c \in DOMAIN fwd :
        /\ fwd[c].send_failed
        /\ Len(Delivered(c)) >= 1
        /\ fwd[c].conn_item_count = Len(Delivered(c)) + 1

\* What C14 says of every state: a task has a result exactly when it has
\* ended; the result is Ok exactly when the stream ended and Err exactly when
\* the stream yielded an error or a send failed, and then the task has ended.
C14_Results ==
    \A c \in DOMAIN fwd :
        /\ (fwd[c].pc = "done") <=> (fwd[c].result # None)
        /\ (fwd[c].result = "Ok") <=> (fwd[c].last = "end")
        /\ (fwd[c].result = "Err") <=> (fwd[c].last = "err" \/ fwd[c].send_failed)
        /\ (fwd[c].last \in {"err", "end"} \/ fwd[c].send_failed) => fwd[c].pc = "done"

\* and of every step: a task that has ended stays as it is, with its result,
\* and delivers nothing more.
C14_NothingAfterwards ==
    \A c \in DOMAIN fwd :
        fwd[c].pc = "done" => fwd'[c] = fwd[c] /\ Len(Delivered(c)') = Len(Delivered(c))

\* C14: a forwarding task ends with Err as soon as its CaConn yields an error
\* or a send to the event channel fails, and forwards nothing afterwards; it
\* ends with Ok exactly when the stream ends; the result stays what the join
\* handle yields, and the task is not started again.
C14_TaskResult == []C14_Results /\ [][C14_NothingAfterwards]_vars

\* One task has ended with the error its CaConn yielded after it forwarded an
\* item, another with Ok.
C14_Witness ==
    \E c, d \in DOMAIN fwd :
        /\ fwd[c].result = "Err" /\ fwd[c].last = "err" /\ fwd[c].yielded > 0
        /\ fwd[d].result = "Ok"

\* What C15 says of every step: a task inside a send pulls no item, and it
\* leaves the send by queueing just that item, or with the closed channel's
\* error.
C15_Suspended ==
    \A c \in DOMAIN fwd :
        fwd[c].pc = "send" =>
            /\ fwd'[c].yielded = fwd[c].yielded
            /\ fwd'[c] # fwd[c] =>
                  \/ /\ conn_item_chan' = Append(conn_item_chan, [from |-> c, k |-> fwd[c].yielded])
                     /\ fwd'[c].pc = "next"
                  \/ conn_item_closed /\ fwd'[c].send_failed

\* C15: the event channel never holds more than its capacity; a task whose
\* send waits on the full channel pulls no further item, and its send ends:
\* with the item in the channel once there is room, so that no item is
\* dropped under backpressure.
C15_Backpressure ==
    /\ [](Len(conn_item_chan) <= ItemCap)
    /\ [][C15_Suspended]_vars
    /\ \A c \in FwdIds : (fwd[c].pc = "send") ~> (fwd[c].pc # "send")

\* The channel is full and open, a task waits in its send.
C15_Witness ==
    /\ Len(conn_item_chan) = ItemCap
    /\ ~conn_item_closed
    /\ \E c \in DOMAIN fwd : fwd[c].pc = "send"

(***************************************************************************)
(* Properties of the write future, under SpecWriteFut and                  *)
(* SpecWriteFutAgain.                                                      *)
(***************************************************************************)

\* C16: the row batch insert (fut2) is never polled before the ts_msp index
\* insert (fut1), when the call staged one, has completed with Ok.
C16_IndexBeforeBatch ==
    wf_h.polled[2] => (cw_last.fut1 = <<>> \/ wf_h.done[1] = "Ok")

\* The batch of a call that staged both has been polled.
C16_Witness ==
    /\ wf_h.polled[2]
    /\ cw_last.fut1 # <<>>
    /\ cw_last.fut2 # <<>>

\* C17 as stated: the poll in which a child completes with an error returns
\* that error; after an error of the index insert the row batch is never
\* polled, whatever polls follow; no child completes twice.
C17_ErrorEndsFuture ==
    /\ \A c \in {1, 2} : wf_h.ev.child[c] = "Err" => wf_h.ev.out.tag = "Err"
    /\ wf_h.done[1] = "Err" => ~wf_h.polled[2]
    /\ \A c \in {1, 2} : wf_h.comp[c] <= 1

\* C17, amended: the poll in which a child completes with an error returns
\* that error; after an error of the index insert the row batch is polled
\* only by a poll that follows a Ready of the write future; no child
\* completes twice.
C17_ErrorEndsPoll ==
    /\ \A c \in {1, 2} : wf_h.ev.child[c] = "Err" => wf_h.ev.out.tag = "Err"
    /\ (wf_h.done[1] = "Err" /\ wf_h.polled[2]) => wf_h.ev.again
    /\ \A c \in {1, 2} : wf_h.comp[c] <= 1

\* The index insert of a call that also staged a batch has failed: the poll
\* returned the error and the batch has not been polled.
C17_Witness ==
    /\ wf_h.done[1] = "Err"
    /\ wf_h.ev.out.tag = "Err"
    /\ cw_last.fut2 # <<>>
    /\ ~wf_h.polled[2]

\* C18: a write future that returns Ready(Ok) reports as nrows the number of
\* rows of the batch its write_msg call flushed, 0 when the call flushed none,
\* and dt = 0 as well when the call staged neither insert.
C18_RowsReported ==
    wf_h.ev.out.tag = "Ok" =>
        /\ wf_h.ev.out.nrows = IF cw_last.fut2 = <<>> THEN 0 ELSE Len(cw_last.fut2[1])
        /\ (cw_last.fut1 = <<>> /\ cw_last.fut2 = <<>>) => wf_h.ev.out.dt = 0

\* The future of a call that flushed a batch has returned Ok after a time.
C18_Witness ==
    /\ wf_h.ev.out.tag = "Ok"
    /\ wf_h.ev.out.nrows >= 40
    /\ wf_h.ev.out.dt > 0

(***************************************************************************)
(* Properties of the flush thresholds, under SpecWriter.                   *)
(***************************************************************************)

\* The threshold C19 gives for the writer w.
C19_Threshold(w) ==
    IF w.shape = "Scalar" THEN 140 + (w.series % 32) ELSE 40 + (w.series % 8)

\* A write_msg call that does not panic flushes exactly when the row it
\* buffers brings the buffer to the threshold, and then flushes all of it.
C19_FlushStep ==
    (cw_calls' = cw_calls + 1 /\ ~cw_last'.panic) =>
        LET n == Len(cw.values) + 1 IN
        IF n >= C19_Threshold(cw)
        THEN cw_last'.fut2 # <<>> /\ Len(cw_last'.fut2[1]) = n /\ cw'.values = <<>>
        ELSE cw_last'.fut2 = <<>> /\ Len(cw'.values) = n

\* C19: for every series id a scalar acceptor wants a flush exactly when it
\* holds at least 140 + (series mod 32) rows, an array acceptor when it holds
\* at least 40 + (series mod 8); write_msg flushes in the call in which the
\* threshold is reached, so that the buffer stays below it between calls.
C19_FlushAtThreshold ==
    /\ [](Len(cw.values) < C19_Threshold(cw))
    /\ [][C19_FlushStep]_vars

\* A scalar writer whose series id has bits above the fifth has flushed, at
\* 140 + 31 rows.
C19_Witness ==
    /\ cw.shape = "Scalar"
    /\ cw.series = U32_MAX
    /\ cw_last.fut2 # <<>>
    /\ cw_last.nn = 171

\* C20: a ScalarF32BE writer of series 7 that has taken, since its
\* construction, 140 write_msg calls at the one timestamp 2 * 10^9 has staged
\* exactly one ts_msp index row and flushed exactly one batch, of 140 rows, in
\* the last of the calls.
C20_OneIndexRowOneBatch ==
    (/\ cw.series = 7 /\ cw.shape = "Scalar" /\ cw.elem = "f32" /\ cw.byte_order = "BE"
     /\ cw.alive
     /\ cw_last.nth = RunLen
     /\ cw_ts_prev = Ts2e9
     /\ cw_seen = {0})
    => /\ Len(cw_idx) = 1
       /\ cw_last.batches = 1
       /\ cw_last.nn = RunLen

(***************************************************************************)
(* Properties of the acceptors and of the timestamp split, under           *)
(* SpecWriter.                                                             *)
(***************************************************************************)

\* A write_msg call that flushes leaves the buffer empty and returns a batch
\* of as many statements as the buffer held with the accepted row, bound to
\* just these rows: the rows buffered before, in order, then the new one.
C21_FlushStep ==
    (cw_calls' = cw_calls + 1 /\ cw_last'.fut2 # <<>>) =>
        LET nn == Len(cw.values) + 1
            rows == cw_last'.fut2[1]
        IN /\ cw'.values = <<>>
           /\ cw_last'.nstmt = nn
           /\ Len(rows) = nn
           /\ SubSeq(rows, 1, nn - 1) = cw.values
           /\ rows[nn].ts_lsp = WriterSplit(cw, cw_last'.ts)[2]

\* C21: flush_batch on an acceptor that holds nn rows leaves the buffer with
\* length 0 and produces a batch with exactly nn appended statements that
\* carries exactly those nn rows.
C21_FlushDrains == [][C21_FlushStep]_vars

\* An array acceptor has flushed its 40 rows.
C21_Witness ==
    /\ cw.shape = "Wave"
    /\ cw_last.fut2 # <<>>
    /\ cw_last.nstmt = 40
    /\ cw.values = <<>>

\* The row the last write_msg call accepted: the last of the flushed batch,
\* or of the buffer.
LastRow ==
    LET rows == IF cw_last.fut2 # <<>> THEN cw_last.fut2[1] ELSE cw.values IN
    rows[Len(rows)]

\* C22: for every ts < 2^32, every series and both bucket sizes the split is
\* (ts_msp, ts_lsp) = (0, 0): the call stores its row with both at 0.
C22_SplitBelow32Bits ==
    (cw_calls > 0 /\ ~cw_last.panic /\ cw_last.ts < 2^U32Bits) =>
        /\ cw_last.ts_msp = 0
        /\ LastRow.ts_msp = 0
        /\ LastRow.ts_lsp = 0

\* C23: for ts >= 2^32 the split is, with off = series mod bucket,
\* ts_msp = ((ts - off) / bucket) * bucket + off and ts_lsp = (ts - off) mod
\* bucket, with 0 <= ts_lsp < bucket: the call stores its row with these.
C23_SplitFrom32Bits ==
    (cw_calls > 0 /\ ~cw_last.panic /\ cw_last.ts >= 2^U32Bits) =>
        LET bucket == IF cw.shape = "Scalar" THEN 100 * SEC ELSE 10 * SEC
            off == cw.series % bucket
            ts == cw_last.ts
        IN /\ cw_last.ts_msp = ((ts - off) \div bucket) * bucket + off
           /\ LastRow.ts_msp = cw_last.ts_msp
           /\ LastRow.ts_lsp = (ts - off) % bucket
           /\ 0 <= LastRow.ts_lsp /\ LastRow.ts_lsp < bucket

\* A sample of a series with an offset has fallen on the last nanosecond of
\* a bucket.
C23_Witness ==
    /\ cw_calls > 0 /\ ~cw_last.panic /\ cw_last.ts >= 2^U32Bits
    /\ cw.series > 0
    /\ LastRow.ts_lsp = Fak(cw) - 1

\* C24: an array acceptor given a payload of L bytes for elements of S bytes
\* stores a row of min(L div S, array_truncate) elements: the first elements
\* of the payload, in order; what follows the last whole element is ignored.
C24_ArrayRow ==
    (cw_calls > 0 /\ ~cw_last.panic /\ cw.shape = "Wave") =>
        LET fr == cw_last.fr
            S == SizeOf(cw.elem)
            k == IF Len(fr) \div S < cw.array_truncate THEN Len(fr) \div S
                 ELSE cw.array_truncate
        IN /\ Len(LastRow.value) = k
           /\ \A i \in 1..k :
                 LastRow.value[i] = FromBytes(SubSeq(fr, (i - 1) * S + 1, i * S), cw.byte_order)

\* A payload of three elements and a part of a fourth has been stored as two.
C24_Witness ==
    /\ cw_calls > 0 /\ ~cw_last.panic /\ cw.shape = "Wave"
    /\ Len(cw_last.fr) = 28
    /\ Len(LastRow.value) = 2

\* Callers that construct writers of every channel type.
NextNew ==
    \E series \in SeriesVals, scalar_type \in ScalarTypes, shape \in Shapes,
       byte_order \in ByteOrders, array_truncate \in 1..ArrayTruncate :
        New(series, scalar_type, shape, byte_order, array_truncate)

SpecNew == InitNew /\ [][NextNew]_vars

\* C25: `new` returns a writer exactly for Scalar with U16, U32, F32 or F64
\* in big-endian order and for Wave with U16, I16, F32 or F64 in either byte
\* order; for every other (scalar_type, shape, byte_order) it returns an
\* error and no writer. The writer it returns is the one asked for.
C25_Construction ==
    made.called =>
        LET ok == \/ /\ made.shape = "Scalar"
                     /\ made.scalar_type \in {"U16", "U32", "F32", "F64"}
                     /\ made.byte_order = "BE"
                  \/ /\ made.shape = "Wave"
                     /\ made.scalar_type \in {"U16", "I16", "F32", "F64"}
                     /\ made.byte_order \in {"LE", "BE"}
        IN /\ ok => /\ Len(made.res) = 1
                    /\ made.res[1].shape = made.shape
                    /\ made.res[1].byte_order = made.byte_order
                    /\ made.res[1].series = made.series
                    /\ made.res[1].values = <<>>
           /\ ~ok => made.res = <<>>

C25_Witness ==
    /\ made.called /\ made.shape = "Scalar" /\ made.scalar_type = "U16"
    /\ made.byte_order = "LE" /\ made.res = <<>>

\* The owner of a writer of an integer channel type; the payloads hold one
\* element (scalar) or two (wave) made of low bytes and of bytes with the top
\* bit set.
ByteVals == {1, ByteRadix - 1}
DecodeFrames(w) ==
    LET n == SizeOf(w.elem) * (IF w.shape = "Scalar" THEN 1 ELSE 2) IN [1..n -> ByteVals]
NextDecode ==
    \E fr \in DecodeFrames(cw) : WriteMsg(0, 1, fr)

SpecDecode == InitDecode /\ [][NextDecode]_vars

\* The elements of the payload of the last call, each most significant byte
\* first, and whether the channel type of the writer is unsigned.
PayloadElems ==
    LET fr == cw_last.fr
        S == SizeOf(cw.elem)
        k == IF cw.shape = "Scalar" THEN 1 ELSE Min(Len(fr) \div S, cw.array_truncate)
    IN [i \in 1..k |-> FromBytes(SubSeq(fr, (i - 1) * S + 1, i * S), cw.byte_order)]
StoredElems == IF cw.shape = "Scalar" THEN <<LastRow.value>> ELSE LastRow.value
UnsignedType == (cw.dtype_mark % 1000) \in {ScalarTypeIndex("U16"), ScalarTypeIndex("U32")}

\* C26: the number stored in a row of an unsigned channel type (U16, U32) is
\* the unsigned number that the payload encodes, also when the top bit of
\* the payload element is set; for a signed type it is the two's complement
\* number.
C26_UnsignedZeroExtended ==
    (cw_calls > 0 /\ ~cw_last.panic /\ cw.elem \in {"i16", "i32"}) =>
        /\ Len(StoredElems) = Len(PayloadElems)
        /\ \A i \in 1..Len(PayloadElems) :
              ElemValue(StoredElems[i]) =
                  IF UnsignedType THEN Unsigned(PayloadElems[i]) ELSE ElemValue(PayloadElems[i])

\* C27: an id returned as Created is in 1..i64::MAX, and so is the id of
\* every row in the catalog: a candidate that is 0 or has its high bit set
\* is never inserted.
C27_CreatedIdInRange ==
    /\ \A p \in GsCallers :
          gs[p].ret.tag = "Created" => 0 < gs[p].ret.id /\ gs[p].ret.id <= I64_MAX
    /\ \A r \in series_by_channel : 0 < r.series /\ r.series <= I64_MAX

C27_Witness ==
    \E p \in GsCallers :
        /\ gs[p].ret = Ret("Created", I64_MAX)
        /\ gs[p].attempt > 1
        /\ Row(gs[p].key, I64_MAX) \in series_by_channel \ cat0

\* Callers of get_series_id whose database answers every statement.
FairSeries == \A p \in GsCallers : WF_vars(GsAttempt(p)) /\ WF_vars(GsGiveUp(p))
SpecSeriesFair == SpecSeries /\ FairSeries

\* A step of the insert loop of caller p: the pass that adds a row returns
\* Created with the id of that row, every other pass leaves the catalog as
\* it is, and the failure is returned after the last pass only.
C28_LoopStep(p) ==
    (gs[p].pc = "loop" /\ gs'[p] # gs[p]) =>
        /\ gs[p].attempt <= MaxAttempts
        /\ gs'[p].attempt <= MaxAttempts
        /\ IF series_by_channel' # series_by_channel
           THEN /\ gs'[p].attempt = gs[p].attempt + 1
                /\ gs'[p].pc = "done"
                /\ gs'[p].ret.tag = "Created"
                /\ series_by_channel' = series_by_channel \cup {Row(gs[p].key, gs'[p].ret.id)}
                /\ Row(gs[p].key, gs'[p].ret.id) \notin series_by_channel
           ELSE \/ /\ gs'[p].pc = "loop"
                   /\ gs'[p].attempt = gs[p].attempt + 1
                \/ /\ gs'[p].pc = "done"
                   /\ gs'[p].ret.tag = "Err"
                   /\ gs[p].attempt = MaxAttempts

\* C28: get_series_id terminates: a call that finds no row makes at most
\* MaxAttempts passes of the loop, returns Created at the first pass whose
\* insert adds a row, and returns the failure, having inserted nothing,
\* when no pass added a row.
C28_Terminates ==
    /\ [][\A p \in GsCallers : C28_LoopStep(p)]_vars
    /\ \A p \in GsCallers : (gs[p].pc # "idle") ~> (gs[p].pc = "done")

C28_Witness ==
    \E p \in GsCallers :
        /\ gs[p].pc = "done" /\ gs[p].ret.tag = "Err" /\ gs[p].attempt = MaxAttempts
        /\ \A r \in series_by_channel \ cat0 : r.key # gs[p].key

\* A step in which caller p runs the select.
C29_QueryStep(p) ==
    (gs[p].pc = "idle" /\ gs'[p].pc # "idle") =>
        LET ids == {r.series : r \in {x \in series_by_channel : x.key = gs'[p].key}} IN
        /\ ids # {} => /\ gs'[p].pc = "done"
                       /\ gs'[p].ret.tag = "Existing"
        /\ gs'[p].ret.tag = "Existing" => gs'[p].ret.id \in ids
        /\ series_by_channel' = series_by_channel

\* C29: a call whose select finds one or more rows for the tuple returns
\* Existing with the id of a row of that tuple (the first one of the
\* answer) and makes no insert: the catalog stays as it is.
C29_ExistingNoInsert == [][\A p \in GsCallers : C29_QueryStep(p)]_vars

C29_Witness ==
    \E p \in GsCallers :
        /\ gs[p].ret.tag = "Existing"
        /\ Cardinality({x \in series_by_channel : x.key = gs[p].key}) = 2
        /\ series_by_channel = cat0

\* ca_search pulling from a finder that may yield anything.
NextSearch ==
    \/ \E items \in Batches(MaxFound) : SearchBatch(items) /\ UNCHANGED fi
    \/ SearchTimeout /\ UNCHANGED fi
    \/ SearchItemErr /\ UNCHANGED fi
    \/ SearchExhausted /\ UNCHANGED fi

SpecSearch == InitSearch /\ [][NextSearch]_vars

\* C30: no row of the search log holds, as responseaddr or as addr, the
\* address of an entry of the blacklist.
C30_NoBlacklistedRow ==
    \A i \in 1..Len(search_log) : \A j \in 1..Len(gw_addrs) :
        gw_addrs[j].fam = "V4" =>
            /\ search_log[i].responseaddr # <<to_string(gw_addrs[j])>>
            /\ search_log[i].addr # <<to_string(gw_addrs[j])>>

\* Two results were yielded with a blacklist of two entries; the one whose
\* advertised addr is on it was skipped, the other one is in the log.
C30_Witness ==
    /\ search_found = 2
    /\ Len(search_log) = 1
    /\ Len(gw_addrs) = 2
    /\ gw_addrs[2] = [fam |-> "V4", ip |-> 1, port |-> PORT_DEFAULT]
    /\ search_log[1].responseaddr = <<to_string([ip |-> NumIps, port |-> PORT_DEFAULT + 1])>>

\* ca_search pulling from the finder; the deadlines pass and the loop keeps
\* pulling.
NextFind ==
    \/ \E c \in FiChans : FiQuery(c)
    \/ \E c \in FiChans, a \in ItemAddrs : FiReply(c, a)
    \/ \E c \in FiChans : FiDeadline(c)
    \/ FiYield
    \/ FiPullTimeout
    \/ FiPullErr
    \/ FiPullNone

FairFind ==
    /\ \A c \in FiChans : WF_vars(FiDeadline(c))
    /\ WF_vars(FiPullNone)
SpecFind == InitFind /\ [][NextFind]_vars
SpecFindFair == SpecFind /\ FairFind

\* The rows of the search log for channel c.
LogOf(c) == SelectSeq(search_log, LAMBDA r : r.channel = c)

C31_Inv ==
    /\ \A c \in FiChans :
          /\ fi.q[c].sent <= RetryLimit + 1
          /\ Len(LogOf(c)) = (IF fi.q[c].st = "yielded" THEN 1 ELSE 0)
          /\ (fi.q[c].st = "yielded" /\ LogOf(c)[1].responseaddr = <<>>) =>
                 /\ LogOf(c)[1].addr = <<>>
                 /\ fi.q[c].sent = RetryLimit + 1
    /\ search_pc = "done" => FiEnded

\* C31: a query with no reply is sent again at most RetryLimit times and is
\* then yielded once, as not found, with no address; the loop of ca_search
\* ends when the stream has ended (input exhausted, nothing in flight), and
\* only then: it goes on after a pull timeout and after an error item.
C31_SearchEnds ==
    /\ []C31_Inv
    /\ [][search_pc' # search_pc => (FiEnded /\ search_pc' = "done")]_vars
    /\ \A c \in FiChans : (fi.q[c].st = "flight") ~> (fi.q[c].st \in {"ready", "yielded"})
    /\ FiEnded ~> (search_pc = "done")

C31_Witness ==
    /\ search_pc = "done"
    /\ fi.q[1].sent = RetryLimit + 1
    /\ LogOf(1) = <<[channel |-> 1, responseaddr |-> <<>>, addr |-> <<>>]>>
    /\ fi.q[2].sent = 1
    /\ LogOf(2)[1].addr # <<>>

\* Readers of the command queue index, and command channels that close.
NextQueues ==
    \/ CqQueuesLocked
    \/ CqQueues
    \/ \E a \in SocketAddrV4s : CqClose(a)

SpecQueues == InitQueues /\ [][NextQueues]_vars

\* C32: what a read of the index gives holds no entry with a closed sender
\* and holds every entry whose sender was open.
C32_ReadsDropClosed ==
    cq.via # "none" =>
        /\ \A e \in cq.seen : ~e.closed
        /\ {e.addr : e \in cq.seen} = cq.open_before

\* Requests of the channel states listing.
NextChst == \E vals \in ValsSet : ChannelStates(vals)

SpecChst == InitChst /\ [][NextChst]_vars

\* C33: the listing holds the infos of all connections, each once, in the
\* order of descending interest_score.
C33_DescendingScores ==
    chst.called =>
        LET all == Flatten(chst.vals)
            res == chst.res
        IN /\ Len(res) = Len(all)
           /\ \A i \in 1..Len(all) : \E j \in 1..Len(res) : res[j] = all[i]
           /\ \A i \in 1..Len(res) - 1 : res[i].interest_score >= res[i + 1].interest_score

(***************************************************************************)
(* Properties of the create path, under SpecConnSet.                       *)
(***************************************************************************)

\* A step of the create path of add_channel_to_addr by caller p: after the
\* lookup found no entry the call spawns a task for the address without
\* another look at the map, and its insert puts that task under the address
\* in place of any entry the address has got since.
C34_CreateStep(p) ==
    /\ (ops[p].pc = "ac_create" /\ ops'[p].pc = "cc_insert") =>
          /\ Len(conns') = Len(conns) + 1
          /\ conns'[Len(conns')].addr = ops[p].addr
          /\ ops'[p].created = <<Len(conns')>>
          /\ ca_conn_ress' = ca_conn_ress
    /\ (ops[p].op = "add_channel_to_addr" /\ ops[p].pc = "cc_insert" /\ ops'[p].pc = "idle") =>
          /\ Len(conns') = Len(conns)
          /\ DOMAIN ca_conn_ress' = DOMAIN ca_conn_ress \cup {ops[p].addr}
          /\ ca_conn_ress'[ops[p].addr] = ops[p].created[1]
          /\ \A a \in DOMAIN ca_conn_ress : a # ops[p].addr => ca_conn_ress'[a] = ca_conn_ress[a]

\* C34: two add_channel_to_addr calls for an address that is not in the map
\* can both take the create path: each spawns a task for the address, and
\* the map keeps one entry for it, the one of the later insert.
C34_BothCreate == [][\A p \in Callers : C34_CreateStep(p)]_vars

\* Both calls found no entry and spawned a task; one has inserted its task
\* and returned, the other is about to insert.
C34_Witness ==
    \E p \in Callers :
        /\ ops[p].op = "add_channel_to_addr" /\ ops[p].pc = "cc_insert"
        /\ ops[p].addr \notin DOMAIN ops[p].map0
        /\ ret.o.op = "add_channel_to_addr" /\ ret.o.result = "Ok"
        /\ ret.o.addr = ops[p].addr
        /\ ret.o.addr \notin DOMAIN ret.o.map0
        /\ Len(ret.o.created) = 1
        /\ ret.o.created # ops[p].created
        /\ ca_conn_ress[ops[p].addr] = ret.o.created[1]
        /\ conns[ops[p].created[1]].state = "running"
        /\ conns[ret.o.created[1]].state = "running"

\* C35: a task that create_ca_conn has spawned and registered stays
\* registered in the map until a wait_stopped call takes it: every running
\* task is in the map, or held by a wait_stopped call, or about to be
\* inserted.
C35_TasksStayRegistered ==
    \A c \in 1..Len(conns) :
        conns[c].state = "running" =>
            \/ Referenced(ca_conn_ress, c)
            \/ \E p \in Callers : ops[p].op = "wait_stopped" /\ c \in Range(ops[p].taken)
            \/ \E p \in Callers : ops[p].pc = "cc_insert" /\ ops[p].created = <<c>>

(***************************************************************************)
(* The rows of a writer across its calls, under SpecWriter.                *)
(***************************************************************************)

\* The flush threshold of the acceptor of writer w (should_flush).
FlushThreshold(w) ==
    IF w.shape = "Scalar" THEN 140 + LowBits(w.series, 31) ELSE 40 + LowBits(w.series, 7)

\* One write_msg call that accepted its row: the buffer before the call with
\* the new row behind it is the flushed batch, if there is one, followed by
\* the buffer after the call; a flushed batch has exactly the threshold
\* number of rows; the buffer is below the threshold afterwards.
C36_CallStep ==
    (cw_calls' = cw_calls + 1 /\ ~cw_last'.panic) =>
        LET flushed == IF cw_last'.fut2 = <<>> THEN <<>> ELSE cw_last'.fut2[1]
            all == flushed \o cw'.values
        IN /\ Len(all) = Len(cw.values) + 1
           /\ SubSeq(all, 1, Len(cw.values)) = cw.values
           /\ all[Len(all)].ts_msp = cw_last'.ts_msp
           /\ all[Len(all)].ts_msp + all[Len(all)].ts_lsp \in {0, cw_last'.ts}
           /\ cw_last'.fut2 # <<>> => Len(flushed) = FlushThreshold(cw)
           /\ Len(cw'.values) < FlushThreshold(cw')
           /\ Len(cw.values) < FlushThreshold(cw)

\* C36: across the write_msg calls on a writer every accepted row is in the
\* buffer or in exactly one flushed batch, in the order of acceptance; every
\* flushed batch has exactly the threshold number of rows; the buffer is
\* shorter than the threshold after every call.
C36_RowsKept == [][C36_CallStep]_vars

\* A call flushed a batch of threshold rows and the call after it buffered
\* its row.
C36_Witness ==
    /\ cw_calls = MaxCalls /\ ~cw_last.panic
    /\ cw_last.batches = 1 /\ cw_last.fut2 = <<>>
    /\ Len(cw.values) = 1
    /\ cw.values[1].ts_msp = cw_last.ts_msp

(***************************************************************************)
(* SenderPolling (senderpolling.rs): a sender of an async_channel with the *)
(* Send future of the item on its way.  fut is the Option as a sequence of *)
(* none or one item; chan is the queue of the bounded channel; sent, dlv    *)
(* and back are the items handed to send, pushed to the channel and handed *)
(* back in Error::Closed; last is the last call and what it returned.      *)
(***************************************************************************)
MaxSends == 3
SpCap == 1
MaxSpCalls == 6

\* Send::poll of async_channel: Err(SendError(item)) on a closed channel,
\* Ok once the item is pushed, Pending while the channel is full.
SendPoll(chan, closed) ==
    IF closed THEN "Closed" ELSE IF Len(chan) < SpCap THEN "Ok" ELSE "Pending"

\* A poll that takes the future out whatever it answered.
FutAfterPollClears(fut, out) == <<>>

\* SenderPolling::poll: *this.fut = None on Ready, untouched on Pending.
FutAfterPoll(fut, out) == IF out = "Pending" THEN fut ELSE <<>>

\* SenderPolling::new(sender): no send in progress.  The channel may hold an
\* item of another sender, 0.
SpInit ==
    \E n \in 0..SpCap :
        spo = [fut |-> <<>>, chan |-> [i \in 1..n |-> 0], closed |-> FALSE,
               sent |-> 0, dlv |-> <<>>, back |-> <<>>, calls |-> 0,
               last |-> [op |-> "new", out |-> "None"]]

SpFrame == UNCHANGED <<old_vars, search_vars, fi, cq, chst, tsplit, tscan>>

\* send / send_pin: self.fut = Some(sender.send(item)).  The Send future
\* holds the item; a future that was there is dropped with its item.
SpSend ==
    /\ spo # <<>>
    /\ spo.sent < MaxSends /\ spo.calls < MaxSpCalls
    /\ spo' = [spo EXCEPT !.fut = <<spo.sent + 1>>, !.sent = spo.sent + 1,
                          !.calls = spo.calls + 1,
                          !.last = [op |-> "send", out |-> "None"]]
    /\ SpFrame

\* Future::poll.
SpPoll ==
    /\ spo # <<>>
    /\ spo.calls < MaxSpCalls
    /\ IF spo.fut = <<>>
       THEN spo' = [spo EXCEPT !.calls = spo.calls + 1,
                               !.last = [op |-> "poll", out |-> "NoSendInProgress"]]
       ELSE LET out == SendPoll(spo.chan, spo.closed) IN
            spo' = [spo EXCEPT !.fut = FutAfterPoll(spo.fut, out),
                               !.chan = IF out = "Ok" THEN Append(spo.chan, spo.fut[1]) ELSE spo.chan,
                               !.dlv = IF out = "Ok" THEN Append(spo.dlv, spo.fut[1]) ELSE spo.dlv,
                               !.back = IF out = "Closed" THEN Append(spo.back, spo.fut[1]) ELSE spo.back,
                               !.calls = spo.calls + 1,
                               !.last = [op |-> "poll", out |-> out]]
    /\ SpFrame

\* The receiver takes an item.
SpRecv ==
    /\ spo # <<>>
    /\ spo.chan # <<>>
    /\ spo' = [spo EXCEPT !.chan = Tail(spo.chan), !.last = [op |-> "recv", out |-> "None"]]
    /\ SpFrame

\* The channel is closed: the receiver is dropped or close() is called.
SpClose ==
    /\ spo # <<>>
    /\ ~spo.closed
    /\ spo' = [spo EXCEPT !.closed = TRUE, !.last = [op |-> "close", out |-> "None"]]
    /\ SpFrame

InitSender ==
    /\ GsIdle /\ CwIdle /\ CsInit /\ FwIdle /\ CtIdle /\ SrIdle /\ FiIdle
    /\ CqIdle /\ ChstIdle /\ SpInit /\ TsplitIdle /\ TscanIdle /\ script = "free"

NextSender == SpSend \/ SpPoll \/ SpRecv \/ SpClose

SpecSender == InitSender /\ [][NextSender]_vars

is_idle == spo.fut = <<>>
is_sending == spo.fut # <<>>

\* One call of send or poll on the SenderPolling.
C37_Step ==
    (spo'.calls = spo.calls + 1) =>
        /\ spo'.last.op = "send" => spo'.fut # <<>>
        /\ spo'.last.op = "poll" =>
              /\ spo'.last.out \in {"Ok", "Closed"} => (spo.fut # <<>> /\ spo'.fut = <<>>)
              /\ spo'.last.out = "Pending" => (spo.fut # <<>> /\ spo'.fut = spo.fut)
              /\ spo.fut = <<>> <=> spo'.last.out = "NoSendInProgress"
              /\ spo.fut = <<>> =>
                    /\ spo'.fut = <<>>
                    /\ spo'.chan = spo.chan /\ spo'.closed = spo.closed
                    /\ spo'.dlv = spo.dlv /\ spo'.back = spo.back

\* C37: a SenderPolling is idle or sending: send makes it sending, a poll
\* that returns Ready (Ok or Closed) makes it idle, a Pending poll leaves it
\* sending, and a poll while idle returns NoSendInProgress, leaves it idle
\* and leaves the channel as it is.
C37_TwoStates == [][C37_Step]_vars

\* A Pending poll has left the sender sending, after an earlier send went
\* through.
C37_Witness ==
    /\ spo # <<>>
    /\ spo.last = [op |-> "poll", out |-> "Pending"]
    /\ spo.fut # <<>>
    /\ spo.dlv # <<>>

Count(seq, x) == Cardinality({i \in DOMAIN seq : seq[i] = x})

\* C38: once polling has reached Ready and no send is in progress, every
\* item handed to send was pushed to the channel exactly once or was handed
\* back in Error::Closed, one of the two, also when send was called during
\* a send.
C38_NoItemDropped ==
    (spo # <<>> /\ spo.fut = <<>>) =>
        \A item \in 1..spo.sent :
            Count(spo.dlv, item) + Count(spo.back, item) = 1

(***************************************************************************)
(* The timestamp split on its own: ts_msp_lsp_gen applied to timestamps    *)
(* over the whole u64 range for every kind of series id.  tsplit holds the *)
(* series, the factor and the last two calls.                              *)
(***************************************************************************)
SplitSeries == {0, 1, 7, U32_MAX - 1, U32_MAX}
SplitFaks == {100 * SEC, 10 * SEC}
SplitTs(series, fak) ==
    {0, 1, U32_MAX - 1, U32_MAX, U32_MAX + 1, U32_MAX + series,
     fak - 1, fak, fak + series - 1, fak + series, fak + series + 1,
     2 * fak + series, TS_MAX - 1, TS_MAX}

NoSplit == [ts |-> 0, out |-> <<0, 0>>, called |-> FALSE]

TsplitInit ==
    \E series \in SplitSeries, fak \in SplitFaks :
        tsplit = [series |-> series, fak |-> fak, prev |-> NoSplit, cur |-> NoSplit]

\* One call ts_msp_lsp_gen(ts, series, fak).
Split(ts) ==
    /\ tsplit # <<>>
    /\ tsplit' = [tsplit EXCEPT
                    !.prev = tsplit.cur,
                    !.cur = [ts |-> ts, out |-> ts_msp_lsp_gen(ts, tsplit.series, tsplit.fak),
                             called |-> TRUE]]
    /\ UNCHANGED <<old_vars, search_vars, fi, cq, chst, spo, tscan>>

InitSplit ==
    /\ GsIdle /\ CwIdle /\ CsInit /\ FwIdle /\ CtIdle /\ SrIdle /\ FiIdle
    /\ CqIdle /\ ChstIdle /\ SpIdle /\ TsplitInit /\ TscanIdle /\ script = "free"

NextSplit == \E ts \in SplitTs(tsplit.series, tsplit.fak) : Split(ts)

SpecSplit == InitSplit /\ [][NextSplit]_vars

\* C39: for every timestamp whose split is not (0, 0) and every series the
\* subtraction ts - series does not underflow, ts_msp + ts_lsp = ts, and of
\* two timestamps the later one has no smaller ts_msp.
C39_SplitLossless ==
    tsplit # <<>> =>
        /\ (tsplit.cur.called /\ tsplit.cur.out # <<0, 0>>) =>
              /\ tsplit.cur.ts >= tsplit.series
              /\ tsplit.cur.out[1] + tsplit.cur.out[2] = tsplit.cur.ts
              /\ tsplit.cur.out[2] < tsplit.fak
        /\ (tsplit.cur.called /\ tsplit.prev.called
              /\ tsplit.cur.out # <<0, 0>> /\ tsplit.prev.out # <<0, 0>>
              /\ tsplit.prev.ts <= tsplit.cur.ts) =>
              tsplit.prev.out[1] <= tsplit.cur.out[1]

\* Two timestamps of different buckets were split for the largest series id,
\* the earlier one the smallest timestamp that is split at all.
C39_Witness ==
    /\ tsplit # <<>>
    /\ tsplit.series = U32_MAX
    /\ tsplit.prev.called /\ tsplit.prev.ts = U32_MAX /\ tsplit.prev.out = <<U32_MAX, 0>>
    /\ tsplit.cur.called /\ tsplit.cur.ts = TS_MAX
    /\ tsplit.cur.out[1] > tsplit.prev.out[1]
    /\ tsplit.cur.out[2] > 0

(***************************************************************************)
(* The token range scan of list_pkey and list_pulses (scywr/src/tools.rs). *)
(* A token is an i64 of TokBits bits.  tscan holds the divisor of td, the  *)
(* build (overflow checks on or off), the bounds of the range of the last  *)
(* iteration, the end of the range before it, and whether an arithmetic    *)
(* step has left the i64 range.                                            *)
(***************************************************************************)
TokBits == 10
TOK_MAX == 2^(TokBits - 1) - 1
TOK_MIN == 0 - 2^(TokBits - 1)
InI64(x) == TOK_MIN <= x /\ x <= TOK_MAX
\* The i64 that wrapping arithmetic gives for the number x.
WrapI64(x) == ((x - TOK_MIN) % 2^TokBits) + TOK_MIN

\* td = i64::MAX / 27 in list_pkey, i64::MAX / 31 in list_pulses.
TdDivs == {27, 31}
Td(d) == TOK_MAX \div d

\* let t2 = if t1 < i64::MAX - td { t1 + td } else { i64::MAX };
ScanT2(t1, td) == IF t1 < TOK_MAX - td THEN t1 + td ELSE TOK_MAX

\* t1 - i64::MIN of the progress percentage, as a number.
PctDiff(t1) == t1 - TOK_MIN

TscanInit ==
    \E d \in TdDivs, b \in {"debug", "release"} :
        tscan = [div |-> d, build |-> b, pc |-> "loop", t1 |-> TOK_MIN, n |-> 0,
                 last |-> <<>>, prev_t2 |-> <<>>, overflow |-> FALSE]

\* One iteration of the loop: t2, the percentage, the query, and the break
\* or the step to the next t1.  The subtraction of the percentage panics on
\* overflow in a build with overflow checks and wraps in one without; the
\* query may fail, which ends the function with the error.
ScanStep(ok) ==
    /\ tscan # <<>>
    /\ tscan.pc = "loop"
    /\ LET t1 == tscan.t1
           t2 == ScanT2(t1, Td(tscan.div))
           ovf == ~InI64(t1 + Td(tscan.div)) \/ ~InI64(TOK_MAX - Td(tscan.div))
                  \/ ~InI64(PctDiff(t1))
       IN IF ~InI64(PctDiff(t1)) /\ tscan.build = "debug"
          THEN tscan' = [tscan EXCEPT !.pc = "panic", !.overflow = TRUE]
          ELSE IF ~ok
          THEN tscan' = [tscan EXCEPT !.pc = "err", !.overflow = @ \/ ovf]
          ELSE tscan' = [tscan EXCEPT
                           !.last = <<t1, t2>>,
                           !.prev_t2 = IF tscan.last = <<>> THEN <<>> ELSE <<tscan.last[2]>>,
                           !.n = @ + 1,
                           !.overflow = @ \/ ovf \/ (t2 # TOK_MAX /\ ~InI64(t2 + 1)),
                           !.pc = IF t2 = TOK_MAX THEN "done" ELSE "loop",
                           !.t1 = IF t2 = TOK_MAX THEN t1 ELSE WrapI64(t2 + 1)]
    /\ UNCHANGED <<old_vars, search_vars, fi, cq, chst, spo, tsplit>>

InitScan ==
    /\ GsIdle /\ CwIdle /\ CsInit /\ FwIdle /\ CtIdle /\ SrIdle /\ FiIdle
    /\ CqIdle /\ ChstIdle /\ SpIdle /\ TsplitIdle /\ TscanInit /\ script = "free"

NextScan == \E ok \in BOOLEAN : ScanStep(ok)

SpecScan == InitScan /\ [][NextScan]_vars

\* The ranges of the scan: the first starts at i64::MIN, each starts one
\* after the end of the one before, and the scan is done with the range
\* that ends at i64::MAX.
ScanRangesContiguous ==
    (tscan # <<>> /\ tscan.last # <<>>) =>
        /\ tscan.last[1] <= tscan.last[2]
        /\ tscan.last[1] = (IF tscan.prev_t2 = <<>> THEN TOK_MIN ELSE tscan.prev_t2[1] + 1)
        /\ tscan.pc = "done" <=> tscan.last[2] = TOK_MAX

\* C40: the scan visits contiguous ranges from i64::MIN up to i64::MAX, and
\* no arithmetic step on the token bounds (t1 + td, t2 + 1, t1 - i64::MIN)
\* leaves the i64 range.
C40_ScanInRange ==
    /\ ScanRangesContiguous
    /\ tscan # <<>> => ~tscan.overflow /\ tscan.pc # "panic"

====
